---- MODULE Spec2Model ----
(***************************************************************************)
(* Analysis aggregation and scoring pipeline of the PR review agent:       *)
(*   core/analyzer.py  Analyzer.analyze, the tool runners and              *)
(*                     _deduplicate_issues                                 *)
(*   utils/ai_helpers.py  AIHelper.generate_feedback                       *)
(*   core/scorer.py    PRScorer.score and its helpers                      *)
(*   core/feedback.py  FeedbackGenerator.generate, the template engine and *)
(*                     _prioritize_feedback                                *)
(*   main.py           analyze_pr, steps 3 and 4 (feedback, then score)    *)
(*   demo/web_demo.py  /api/analyze and /api/export over module globals    *)
(*                                                                         *)
(* Issues and feedback items are Python dicts; they are modelled as        *)
(* records whose DOMAIN is the set of keys the dict carries, so that a     *)
(* missing key is really missing and dict.get(key, default) is Get.        *)
(*                                                                         *)
(* Numbers.  The scorer works in floating point on decimal constants with  *)
(* at most two decimals.  The model keeps them exact as scaled integers:   *)
(*   severity penalties            units of 1                              *)
(*   tool weights, multipliers     units of 1/10                           *)
(*   category penalty, breakdown   units of 1/100                          *)
(*   category weights              units of 1/100                          *)
(*   total penalty, final score    units of 1/10000                        *)
(*   total_score (one decimal)     units of 1/10                           *)
(***************************************************************************)
EXTENDS Integers, Sequences, FiniteSets, TLC

VARIABLES
    pc,             \* "input": the caller is assembling the input; "done": the operation returned or raised
    issues,         \* the issue list handed to score / deduplicate / generate
    raised,         \* "none", or the name of the exception that left the operation
    score_result,   \* the dict returned by PRScorer.score (NoResult before the call and when it raised)
    unique_issues,  \* the list returned by Analyzer._deduplicate_issues
    use_ai,         \* FeedbackGenerator.use_ai (and ai_helper is set)
    ai_behaviour,   \* per file: what ai_helper.generate_feedback did for that file's group
    feedback_items, \* the list built by FeedbackGenerator.generate before prioritization
    feedback,       \* the list returned by FeedbackGenerator.generate
    current_pr_data,   \* web_demo.current_pr_data (None, or the value wrapped in a 1-tuple)
    current_analysis,  \* web_demo.current_analysis
    current_feedback,  \* web_demo.current_feedback
    current_score,     \* web_demo.current_score
    response,          \* the last HTTP response of the web service
    last_success,      \* the body of the last successful /api/analyze response
    diffs,             \* the diffs Analyzer.analyze is called with
    tool_runs          \* per diff: what each external tool reported when analyze ran it

vars == <<pc, issues, raised, score_result, unique_issues, use_ai, ai_behaviour, feedback_items, feedback,
          current_pr_data, current_analysis, current_feedback, current_score, response, last_success,
          diffs, tool_runs>>

\* the variables of the deduplicator and of the feedback generator
dedupVars == <<unique_issues>>
feedbackVars == <<use_ai, ai_behaviour, feedback_items, feedback>>

\* the input of Analyzer.analyze and the tool reports of its run
analyzeVars == <<diffs, tool_runs>>

\* no call of Analyzer.analyze is in progress
AnalyzeIdle ==
    /\ diffs = <<>>
    /\ tool_runs = <<>>

\* the module globals of the web service, its last response and the record of
\* its last successful analysis
webVars == <<current_pr_data, current_analysis, current_feedback, current_score, response, last_success>>

\* Python's None, and a value held by a global
None == <<>>
Some(value) == <<value>>

\* the web service right after import: no request served yet
WebIdle ==
    /\ current_pr_data = None
    /\ current_analysis = None
    /\ current_feedback = None
    /\ current_score = None
    /\ response = None
    /\ last_success = None

(***************************************************************************)
(* Bounds of the model.                                                    *)
(***************************************************************************)
MaxIssues == 3      \* issues appended to the base batch of a scoring request
HeavyBatch == 6     \* size of the pre-filled batch of heavy security findings
MediumBatch == 9    \* size of the pre-filled batch just below the review threshold
LargeBatch == 19    \* size of the pre-filled batch just below the split threshold
MaxDedupLen == 4    \* length of the lists handed to the deduplicator
MaxFeedbackLen == 4 \* length of the issue lists handed to generate
MaxPrioLen == 4     \* length of the lists handed to _prioritize_feedback directly
MaxReviewLen == 3   \* number of issues of a reviewed pull request
MaxWebLen == 2      \* number of raw findings of a pull request analysed by the web service
MaxPureLen == 3     \* length of the list the three consumers are called on
MaxDiffs == 2       \* number of changed files Analyzer.analyze is called with

(***************************************************************************)
(* Generic helpers.                                                        *)
(***************************************************************************)
\* dict.get(key, default)
Get(d, key, default) == IF key \in DOMAIN d THEN d[key] ELSE default

Max(a, b) == IF a >= b THEN a ELSE b

RECURSIVE SumOver(_, _)
\* sum of f[x] for x in S
SumOver(S, f) ==
    IF S = {} THEN 0
    ELSE LET x == CHOOSE y \in S : TRUE IN f[x] + SumOver(S \ {x}, f)

RECURSIVE SumSeq(_)
SumSeq(s) == IF s = <<>> THEN 0 ELSE Head(s) + SumSeq(Tail(s))

\* number of elements of s that satisfy P
CountIf(s, P(_)) == Cardinality({k \in 1..Len(s) : P(s[k])})

NoResult == <<>>

(***************************************************************************)
(* PRScorer.__init__: the three tables.                                    *)
(***************************************************************************)
\* category_weights with the security weight left out
category_weights_NoSecurity(category) ==
    CASE category = "error"           -> 25
      [] category = "complexity"      -> 20
      [] category = "style"           -> 15
      [] category = "maintainability" -> 10
      [] category = "maintenance"     -> 5
      [] category = "unknown"         -> 10
      [] category = "security"        -> 0
      [] OTHER                        -> 10

\* self.category_weights.get(category, 0.1), in 1/100
category_weights(category) ==
    CASE category = "security"        -> 30
      [] category = "error"           -> 25
      [] category = "complexity"      -> 20
      [] category = "style"           -> 15
      [] category = "maintainability" -> 10
      [] category = "maintenance"     -> 5
      [] category = "unknown"         -> 10
      [] OTHER                        -> 10

SeverityNames == {"error", "high", "medium", "low", "info"}

\* self.severity_penalties.get(severity, 5)
severity_penalties(severity) ==
    CASE severity = "error"  -> 20
      [] severity = "high"   -> 15
      [] severity = "medium" -> 10
      [] severity = "low"    -> 5
      [] severity = "info"   -> 2
      [] OTHER               -> 5

\* self.tool_weights.get(tool, 1.0), in 1/10
tool_weights(tool) ==
    CASE tool = "bandit" -> 15
      [] tool = "safety" -> 15
      [] tool = "radon"  -> 12
      [] tool = "flake8" -> 10
      [] tool = "custom" -> 8
      [] tool = "ai"     -> 11
      [] OTHER           -> 10

\* CategoryMultiplier without the category-specific factors
CategoryMultiplier_Flat(category) == IF category = "security" THEN 10 ELSE 10

\* the category-specific multiplier of _calculate_category_penalty, in 1/10
CategoryMultiplier(category) ==
    CASE category = "security"   -> 15
      [] category = "error"      -> 13
      [] category = "complexity" -> 12
      [] OTHER                   -> 10

(***************************************************************************)
(* PRScorer helpers.                                                       *)
(***************************************************************************)
CategoryOf(issue) == Get(issue, "category", "unknown")
SeverityOf(issue) == Get(issue, "severity", "info")
ToolOf(issue) == Get(issue, "tool", "unknown")

\* _group_issues_by_category: category -> the issues of that category, in input order
GroupIssuesByCategory(iss) ==
    [c \in {CategoryOf(iss[k]) : k \in 1..Len(iss)} |->
        SelectSeq(iss, LAMBDA i : CategoryOf(i) = c)]

\* the penalty one issue adds to its category, in 1/100
IssuePenalty(category, issue) ==
    severity_penalties(SeverityOf(issue)) * CategoryMultiplier(category) * tool_weights(ToolOf(issue))

\* _calculate_category_penalty, in 1/100
CalculateCategoryPenalty(category, iss) ==
    SumSeq([k \in 1..Len(iss) |-> IssuePenalty(category, iss[k])])

\* category_scores of score(): max(0, 100 - category_penalty), in 1/100
CategoryScores(iss) ==
    LET groups == GroupIssuesByCategory(iss)
    IN  [c \in DOMAIN groups |-> Max(0, 10000 - CalculateCategoryPenalty(c, groups[c]))]

\* TotalPenalty with each category penalty capped at 100
TotalPenalty_Capped(iss) ==
    LET groups == GroupIssuesByCategory(iss)
    IN  SumOver(DOMAIN groups,
                [c \in DOMAIN groups |->
                    (10000 - Max(0, 10000 - CalculateCategoryPenalty(c, groups[c])))
                        * category_weights(c)])

\* total_penalty of score(), in 1/10000
TotalPenalty(iss) ==
    LET groups == GroupIssuesByCategory(iss)
    IN  SumOver(DOMAIN groups,
                [c \in DOMAIN groups |->
                    CalculateCategoryPenalty(c, groups[c]) * category_weights(c)])

\* FinalScore without the clamp at 0
FinalScore_NoClamp(iss) == 1000000 - TotalPenalty(iss)

\* final_score = max(0, base_score - total_penalty), in 1/10000
FinalScore(iss) == Max(0, 1000000 - TotalPenalty(iss))

\* CalculateGrade with the "A-" band merged into "B+"
CalculateGrade_NoAMinus(score) ==
    IF score >= 950000 THEN "A+"
    ELSE IF score >= 900000 THEN "A"
    ELSE IF score >= 800000 THEN "B+"
    ELSE IF score >= 750000 THEN "B"
    ELSE IF score >= 700000 THEN "B-"
    ELSE IF score >= 650000 THEN "C+"
    ELSE IF score >= 600000 THEN "C"
    ELSE IF score >= 550000 THEN "C-"
    ELSE IF score >= 500000 THEN "D"
    ELSE "F"

\* _calculate_grade; score in 1/10000
CalculateGrade(score) ==
    IF score >= 950000 THEN "A+"
    ELSE IF score >= 900000 THEN "A"
    ELSE IF score >= 850000 THEN "A-"
    ELSE IF score >= 800000 THEN "B+"
    ELSE IF score >= 750000 THEN "B"
    ELSE IF score >= 700000 THEN "B-"
    ELSE IF score >= 650000 THEN "C+"
    ELSE IF score >= 600000 THEN "C"
    ELSE IF score >= 550000 THEN "C-"
    ELSE IF score >= 500000 THEN "D"
    ELSE "F"

\* round(final_score, 1): the possible results in 1/10 for a score in 1/10000.
\* A decimal tie (x.x5) has no exact binary representation, so the float that
\* the sum produced lies on either side of it and both neighbours can come out.
RoundOneDecimal(score) ==
    LET lo == score \div 1000
        r  == score % 1000
    IN  IF r < 500 THEN {lo}
        ELSE IF r > 500 THEN {lo + 1}
        ELSE {lo, lo + 1}

\* one sentence of the summary: its fixed text and the number interpolated into it
Sentence(text, n) == [text |-> text, n |-> n]

\* the keys of severity_counts in _generate_summary
SeverityCountKeys == {"error", "high", "medium", "low", "info"}

\* _generate_summary line 163: severity_counts[severity] += 1 raises KeyError
\* for a severity that is not a key of severity_counts
GenerateSummaryRaises(iss) ==
    \E k \in 1..Len(iss) : SeverityOf(iss[k]) \notin SeverityCountKeys

\* _generate_summary (when it does not raise); score in 1/10000, shown is the
\* score as "{score:.1f}" prints it, in 1/10
GenerateSummary(iss, score, shown) ==
    LET nsev(s) == CountIf(iss, LAMBDA i : SeverityOf(i) = s)
        ncat(c) == CountIf(iss, LAMBDA i : CategoryOf(i) = c)
        band == IF score >= 900000 THEN "Excellent code quality! Score: {}/100."
                ELSE IF score >= 800000 THEN "Good code quality with minor issues. Score: {}/100."
                ELSE IF score >= 700000 THEN "Code quality needs improvement. Score: {}/100."
                ELSE IF score >= 600000 THEN "Code quality is below standards. Score: {}/100."
                ELSE "Code quality is poor and needs significant improvement. Score: {}/100."
        part(cond, text, n) == IF cond THEN <<Sentence(text, n)>> ELSE <<>>
    IN  <<Sentence(band, shown)>>
        \o part(nsev("error") > 0, "Found {} errors.", nsev("error"))
        \o part(nsev("high") > 0, "Found {} high-severity issues.", nsev("high"))
        \o part(nsev("medium") > 0, "Found {} medium-severity issues.", nsev("medium"))
        \o part(ncat("security") > 0, "Security issues detected ({}).", ncat("security"))
        \o part(ncat("complexity") > 0, "Complexity issues found ({}).", ncat("complexity"))

\* issue.get(key) is truthy: the key is present and is neither "" nor 0
Truthy(issue, key, falsy) == key \in DOMAIN issue /\ issue[key] # falsy

\* CalculateMetrics with lines_affected counting (file, line) pairs
CalculateMetrics_LinesPerFile(iss) ==
    LET idx == 1..Len(iss)
        countBy(F(_)) == [v \in {F(iss[k]) : k \in idx} |-> CountIf(iss, LAMBDA i : F(i) = v)]
    IN  [total_issues       |-> Len(iss),
         issues_by_severity |-> countBy(SeverityOf),
         issues_by_category |-> countBy(CategoryOf),
         issues_by_tool     |-> countBy(ToolOf),
         files_affected     |-> Cardinality({iss[k].file : k \in {j \in idx : Truthy(iss[j], "file", "")}}),
         lines_affected     |-> Cardinality({<<Get(iss[k], "file", ""), iss[k].line>> :
                                                k \in {j \in idx : Truthy(iss[j], "line", 0)}})]

\* _calculate_metrics
CalculateMetrics(iss) ==
    LET idx == 1..Len(iss)
        countBy(F(_)) == [v \in {F(iss[k]) : k \in idx} |-> CountIf(iss, LAMBDA i : F(i) = v)]
    IN  [total_issues       |-> Len(iss),
         issues_by_severity |-> countBy(SeverityOf),
         issues_by_category |-> countBy(CategoryOf),
         issues_by_tool     |-> countBy(ToolOf),
         files_affected     |-> Cardinality({iss[k].file : k \in {j \in idx : Truthy(iss[j], "file", "")}}),
         lines_affected     |-> Cardinality({iss[k].line : k \in {j \in idx : Truthy(iss[j], "line", 0)}})]

\* GenerateRecommendations with the size recommendations made independent
GenerateRecommendations_NoElif(iss) ==
    LET some(P(_)) == \E k \in 1..Len(iss) : P(iss[k])
        rec(cond, text) == IF cond THEN <<text>> ELSE <<>>
        total_issues == Len(iss)
    IN  rec(some(LAMBDA i : Get(i, "category", "") = "security"),
            "Address security issues immediately - these are critical for production safety")
        \o rec(some(LAMBDA i : Get(i, "severity", "") = "error"),
            "Fix all errors before merging - these will cause runtime failures")
        \o rec(some(LAMBDA i : Get(i, "category", "") = "complexity"),
            "Refactor complex functions to improve maintainability")
        \o rec(some(LAMBDA i : Get(i, "category", "") = "style"),
            "Fix style issues to improve code readability")
        \o rec(total_issues > 20, "Consider breaking this PR into smaller, more focused changes")
        \o rec(total_issues > 10, "Review the code more carefully before submitting")
        \o rec(some(LAMBDA i : Get(i, "tool", "") = "bandit"),
            "Run security scans regularly in your development workflow")
        \o rec(some(LAMBDA i : Get(i, "tool", "") = "radon"),
            "Consider adding complexity checks to your CI/CD pipeline")

\* _generate_recommendations (the texts without their leading pictograms)
GenerateRecommendations(iss) ==
    LET some(P(_)) == \E k \in 1..Len(iss) : P(iss[k])
        rec(cond, text) == IF cond THEN <<text>> ELSE <<>>
        total_issues == Len(iss)
    IN  rec(some(LAMBDA i : Get(i, "category", "") = "security"),
            "Address security issues immediately - these are critical for production safety")
        \o rec(some(LAMBDA i : Get(i, "severity", "") = "error"),
            "Fix all errors before merging - these will cause runtime failures")
        \o rec(some(LAMBDA i : Get(i, "category", "") = "complexity"),
            "Refactor complex functions to improve maintainability")
        \o rec(some(LAMBDA i : Get(i, "category", "") = "style"),
            "Fix style issues to improve code readability")
        \o (IF total_issues > 20
            THEN <<"Consider breaking this PR into smaller, more focused changes">>
            ELSE rec(total_issues > 10, "Review the code more carefully before submitting"))
        \o rec(some(LAMBDA i : Get(i, "tool", "") = "bandit"),
            "Run security scans regularly in your development workflow")
        \o rec(some(LAMBDA i : Get(i, "tool", "") = "radon"),
            "Consider adding complexity checks to your CI/CD pipeline")

\* EmptyScoreResult with the "quality" entry of the breakdown forgotten
EmptyScoreResult_NoQuality ==
    [total_score |-> 1000,
     grade       |-> "A+",
     breakdown   |-> [c \in {"security", "maintainability", "style"} |-> 10000],
     summary     |-> <<Sentence("No issues found - excellent code quality!", 0)>>]

\* the dict score() returns for the empty list (lines 43-54)
EmptyScoreResult ==
    [total_score |-> 1000,
     grade       |-> "A+",
     breakdown   |-> [c \in {"security", "quality", "maintainability", "style"} |-> 10000],
     summary     |-> <<Sentence("No issues found - excellent code quality!", 0)>>]

\* the dict score() returns for a non-empty list (lines 85-92); rounded is
\* round(final_score, 1) in 1/10
ScoreResult(iss, rounded) ==
    [total_score     |-> rounded,
     grade           |-> CalculateGrade(FinalScore(iss)),
     breakdown       |-> CategoryScores(iss),
     summary         |-> GenerateSummary(iss, FinalScore(iss), rounded),
     metrics         |-> CalculateMetrics(iss),
     recommendations |-> GenerateRecommendations(iss)]

\* PRScorer.score: the set of outcomes <<raised, result>> of one call
ScoreOutcomes(iss) ==
    IF iss = <<>> THEN {<<"none", EmptyScoreResult>>}
    ELSE IF GenerateSummaryRaises(iss) THEN {<<"KeyError", NoResult>>}
    ELSE {<<"none", ScoreResult(iss, t)>> : t \in RoundOneDecimal(FinalScore(iss))}

(***************************************************************************)
(* Scoring requests.  A caller assembles an issue list and calls           *)
(* PRScorer.score on it once; the next request starts from a fresh list.   *)
(***************************************************************************)
\* a finding of the security scanner, the heaviest shape the tables know
HeavyIssue ==
    [file |-> "a.py", line |-> 10, severity |-> "error", category |-> "security",
     tool |-> "bandit", message |-> "Use of exec detected"]

\* the issue records the scoring requests are built from
ScoreIssues ==
    { HeavyIssue,
      [file |-> "a.py", line |-> 20, severity |-> "error", category |-> "security",
       tool |-> "ai", message |-> "Unsafe deserialization"],
      [file |-> "b.py", line |-> 10, severity |-> "high", category |-> "security",
       tool |-> "bandit", message |-> "Potential hardcoded secret detected"],
      [file |-> "test.py", line |-> 1, severity |-> "error", category |-> "error",
       tool |-> "flake8", message |-> "Syntax error"],
      [file |-> "test.py", line |-> 1, severity |-> "medium", category |-> "style",
       tool |-> "flake8", message |-> "Line too long"],
      \* what Analyzer._get_severity_from_code gives a W code
      [file |-> "b.py", line |-> 3, severity |-> "warning", category |-> "style",
       tool |-> "flake8", message |-> "blank line contains whitespace", code |-> "W293"],
      \* the record with missing fields of test_score_edge_cases
      [file |-> "test.py", message |-> "Issue with missing fields"],
      \* what Analyzer.analyze appends when a tool raised
      [file |-> "a.py", tool |-> "flake8", severity |-> "error", category |-> "analysis_error",
       message |-> "Analysis failed: timeout", line |-> 0],
      \* a finding of Analyzer._run_radon
      [file |-> "b.py", line |-> 5, function |-> "parse", complexity |-> 12, grade |-> "C",
       severity |-> "medium", category |-> "complexity",
       message |-> "High complexity (12) - consider refactoring", tool |-> "radon"],
      \* a TODO comment found by Analyzer._custom_analysis
      [file |-> "b.py", line |-> 20, severity |-> "low", category |-> "maintenance",
       message |-> "Found TODO: tidy up", tool |-> "custom"],
      \* a record of test_generate_recommendations, without file and line
      [severity |-> "high", category |-> "security", tool |-> "bandit"] }

\* the style finding of test_score_with_many_issues, reported on line 100 + k
StyleIssueAt(k) ==
    [file |-> "test.py", line |-> 100 + k, severity |-> "medium", category |-> "style",
     tool |-> "flake8", message |-> "Issue"]

\* the lists a request starts from: the empty one, the same heavy finding
\* reported on HeavyBatch different lines, and two batches of style findings
ScoreBatches ==
    { <<>>,
      [k \in 1..HeavyBatch |-> [HeavyIssue EXCEPT !.line = 100 + k]],
      [k \in 1..MediumBatch |-> StyleIssueAt(k)],
      [k \in 1..LargeBatch |-> StyleIssueAt(k)] }

\* a request may still grow: at most MaxIssues records are appended to a
\* batch (the records of a batch are those reported above line 100)
ScoreRoom(iss) ==
    Cardinality({k \in 1..Len(iss) : Get(iss[k], "line", 0) <= 100}) < MaxIssues

InitScore ==
    /\ pc = "input"
    /\ issues \in ScoreBatches
    /\ raised = "none"
    /\ score_result = NoResult
    /\ unique_issues = <<>>
    /\ use_ai = FALSE
    /\ ai_behaviour = <<>>
    /\ feedback_items = <<>>
    /\ feedback = <<>>
    /\ WebIdle
    /\ AnalyzeIdle

\* the caller appends one more issue record to the list
ScoreAddIssue ==
    /\ pc = "input"
    /\ ScoreRoom(issues)
    /\ \E i \in ScoreIssues : issues' = Append(issues, i)
    /\ UNCHANGED <<analyzeVars, webVars, pc, raised, score_result, dedupVars, feedbackVars>>

\* PRScorer.score(issues)
Score ==
    /\ pc = "input"
    /\ \E o \in ScoreOutcomes(issues) :
          /\ raised' = o[1]
          /\ score_result' = o[2]
    /\ pc' = "done"
    /\ UNCHANGED <<analyzeVars, webVars, issues, dedupVars, feedbackVars>>

\* the caller starts the next request
ScoreNewRequest ==
    /\ pc = "done"
    /\ pc' = "input"
    /\ issues' \in ScoreBatches
    /\ raised' = "none"
    /\ score_result' = NoResult
    /\ UNCHANGED <<analyzeVars, webVars, dedupVars, feedbackVars>>

NextScore == ScoreAddIssue \/ Score \/ ScoreNewRequest

SpecScore == InitScore /\ [][NextScore]_vars

LastScoreReturned == pc = "done" /\ raised = "none"

\* the penalty the claim C1 assigns to one record, in 1/10000: missing fields
\* read as category "unknown", severity "info", tool "unknown"
C1_Penalty(issue) ==
    LET category == IF "category" \in DOMAIN issue THEN issue.category ELSE "unknown"
        severity == IF "severity" \in DOMAIN issue THEN issue.severity ELSE "info"
        tool     == IF "tool" \in DOMAIN issue THEN issue.tool ELSE "unknown"
    IN  severity_penalties(severity) * tool_weights(tool)
            * CategoryMultiplier(category) * category_weights(category)

\* C1: score returns a ScoreResult without raising for every sequence of
\* issue-shaped records; records with missing category, severity or tool count
\* as "unknown", "info", "unknown", and a record with a severity outside
\* error/high/medium/low/info (such as "warning") is scored with penalty 5.
C1_ScoreIsTotal ==
    pc = "done" =>
        /\ raised = "none"
        /\ issues # <<>> =>
              /\ \A k \in 1..Len(issues) :
                    Get(issues[k], "category", "unknown") \in DOMAIN score_result.breakdown
              /\ score_result.total_score \in
                    RoundOneDecimal(Max(0, 1000000
                        - SumSeq([k \in 1..Len(issues) |-> C1_Penalty(issues[k])])))

\* C2: the reported grade is the one the threshold table assigns to the
\* reported total_score (the score after rounding to one decimal place).
C2_GradeMatchesTotalScore ==
    LastScoreReturned =>
        score_result.grade = CalculateGrade(score_result.total_score * 1000)

\* C8: score on the empty list returns total_score 100, grade "A+", a breakdown
\* of exactly security, quality, maintainability and style at 100 each, and the
\* fixed summary "No issues found - excellent code quality!".
C8_EmptyInputResult ==
    (pc = "done" /\ issues = <<>>) =>
        /\ raised = "none"
        /\ score_result.total_score = 1000
        /\ score_result.grade = "A+"
        /\ DOMAIN score_result.breakdown = {"security", "quality", "maintainability", "style"}
        /\ \A c \in DOMAIN score_result.breakdown : score_result.breakdown[c] = 10000
        /\ Len(score_result.summary) = 1
        /\ score_result.summary[1].text = "No issues found - excellent code quality!"

C8_Witness == pc = "done" /\ issues = <<>> /\ raised = "none"

\* C9: every ScoreResult returned by score, for empty and non-empty input
\* alike, carries the six fields total_score, grade, breakdown, summary,
\* metrics and recommendations.
C9_SixFields ==
    LastScoreReturned =>
        DOMAIN score_result =
            {"total_score", "grade", "breakdown", "summary", "metrics", "recommendations"}

\* C10: total_score lies in [0, 100] and every value of breakdown lies in
\* [0, 100], however large the summed penalties are.
C10_ScoresInRange ==
    LastScoreReturned =>
        /\ score_result.total_score \in 0..1000
        /\ \A c \in DOMAIN score_result.breakdown :
              score_result.breakdown[c] \in 0..10000

\* a returned result whose aggregate penalty exceeds 100 and that has a
\* category whose penalty exceeds 100
C10_Witness ==
    /\ LastScoreReturned
    /\ TotalPenalty(issues) > 1000000
    /\ \E c \in DOMAIN score_result.breakdown :
          CalculateCategoryPenalty(c, GroupIssuesByCategory(issues)[c]) > 10000

\* the last record of the scored list is an error of category security
C11_LastIsSecurityError ==
    /\ issues # <<>>
    /\ Get(issues[Len(issues)], "severity", "none") = "error"
    /\ Get(issues[Len(issues)], "category", "none") = "security"

\* the list without its last record
C11_Before == SubSeq(issues, 1, Len(issues) - 1)

\* C11: adding one issue of severity error and category security to any issue
\* set, the empty one included, makes total_score strictly smaller or leaves
\* it at 0 when it was 0 already, and never makes breakdown["security"] larger.
C11_SecurityErrorLowersScore ==
    (LastScoreReturned /\ C11_LastIsSecurityError) =>
        \A o \in ScoreOutcomes(C11_Before) :
            /\ o[1] = "none"
            /\ \/ score_result.total_score < o[2].total_score
               \/ score_result.total_score = 0 /\ o[2].total_score = 0
            /\ "security" \in DOMAIN o[2].breakdown =>
                  score_result.breakdown["security"] <= o[2].breakdown["security"]

\* added to a non-empty list whose score was positive and stays positive
C11_Witness ==
    /\ LastScoreReturned
    /\ C11_LastIsSecurityError
    /\ C11_Before # <<>>
    /\ score_result.total_score > 0
    /\ "style" \in DOMAIN score_result.breakdown

C13_SeverityPenalty(severity) ==
    IF severity = "error" THEN 20
    ELSE IF severity = "high" THEN 15
    ELSE IF severity = "medium" THEN 10
    ELSE IF severity = "low" THEN 5
    ELSE IF severity = "info" THEN 2
    ELSE 5

C13_ToolWeight(tool) ==
    IF tool \in {"bandit", "safety"} THEN 15
    ELSE IF tool = "radon" THEN 12
    ELSE IF tool = "flake8" THEN 10
    ELSE IF tool = "custom" THEN 8
    ELSE IF tool = "ai" THEN 11
    ELSE 10

C13_CategoryMultiplier(category) ==
    IF category = "security" THEN 15
    ELSE IF category = "error" THEN 13
    ELSE IF category = "complexity" THEN 12
    ELSE 10

C13_Category(issue) == IF "category" \in DOMAIN issue THEN issue.category ELSE "unknown"

\* P(c) of the claim over the issues of the scored list, in 1/100
C13_P(c) ==
    SumSeq([k \in 1..Len(issues) |->
        IF C13_Category(issues[k]) # c THEN 0
        ELSE C13_SeverityPenalty(IF "severity" \in DOMAIN issues[k] THEN issues[k].severity ELSE "info")
                * C13_ToolWeight(IF "tool" \in DOMAIN issues[k] THEN issues[k].tool ELSE "unknown")
                * C13_CategoryMultiplier(c)])

\* C13: for a non-empty issue set, breakdown[c] of each category c present is
\* max(0, 100 - P(c)), P(c) being the sum over the issues of category c of
\* severityPenalty x toolWeight x categoryMultiplier with the stated tables and
\* defaults; the same issues are penalised strictly more under category
\* security than under category style.  The category scores are compared as
\* score() computes them, and as it returns them when it returns.
C13_BreakdownFormula ==
    (pc = "done" /\ issues # <<>>) =>
        /\ DOMAIN CategoryScores(issues) = {C13_Category(issues[k]) : k \in 1..Len(issues)}
        /\ \A c \in DOMAIN CategoryScores(issues) :
              CategoryScores(issues)[c] = (IF C13_P(c) >= 10000 THEN 0 ELSE 10000 - C13_P(c))
        /\ raised = "none" => score_result.breakdown = CategoryScores(issues)
        /\ CalculateCategoryPenalty("security", issues) > CalculateCategoryPenalty("style", issues)

\* a returned breakdown with a category clamped at 0, a category strictly
\* between 0 and 100, and a record scored on its defaults
C13_Witness ==
    /\ LastScoreReturned
    /\ issues # <<>>
    /\ \E c \in DOMAIN score_result.breakdown : score_result.breakdown[c] = 0 /\ C13_P(c) > 10000
    /\ \E c \in DOMAIN score_result.breakdown : score_result.breakdown[c] \in 1..9999
    /\ \E k \in 1..Len(issues) : "severity" \notin DOMAIN issues[k]

\* the category weights of the claim C14, in 1/100
C14_CategoryWeight(category) ==
    IF category = "security" THEN 30
    ELSE IF category = "error" THEN 25
    ELSE IF category = "complexity" THEN 20
    ELSE IF category = "style" THEN 15
    ELSE IF category = "maintainability" THEN 10
    ELSE IF category = "maintenance" THEN 5
    ELSE IF category = "unknown" THEN 10
    ELSE 10

\* the aggregate penalty of the claim over the scored list, in 1/10000
C14_AggregatePenalty ==
    LET present == {C13_Category(issues[k]) : k \in 1..Len(issues)}
    IN  SumOver(present, [c \in present |-> C13_P(c) * C14_CategoryWeight(c)])

\* the exact score of the claim before rounding, in 1/10000
C14_Exact == IF C14_AggregatePenalty >= 1000000 THEN 0 ELSE 1000000 - C14_AggregatePenalty

\* C14: for a non-empty issue set, total_score is max(0, 100 - the sum over the
\* categories present of P(c) x categoryWeight(c)) rounded to one decimal
\* place, with P(c) not limited to 100 and weight 0.10 for a category outside
\* the table.
C14_TotalScoreFormula ==
    (LastScoreReturned /\ issues # <<>>) =>
        /\ score_result.total_score * 1000 - C14_Exact \in -500..500
        /\ score_result.total_score \in 0..1000

\* a returned score above 0 to which a category penalty above 100 and a
\* category outside the weight table contributed
C14_Witness ==
    /\ LastScoreReturned
    /\ issues # <<>>
    /\ score_result.total_score > 0
    /\ \E c \in DOMAIN score_result.breakdown : C13_P(c) > 10000
    /\ "analysis_error" \in DOMAIN score_result.breakdown

\* some issue of the scored list carries the value under the field
C17_Any(field, value) ==
    \E k \in 1..Len(issues) : field \in DOMAIN issues[k] /\ issues[k][field] = value

\* the entry of the fixed list when its condition holds
C17_Entry(cond, text) == IF cond THEN <<text>> ELSE <<>>

\* the recommendations the claim C17 lists, in its order
C17_Expected ==
    C17_Entry(C17_Any("category", "security"),
        "Address security issues immediately - these are critical for production safety")
    \o C17_Entry(C17_Any("severity", "error"),
        "Fix all errors before merging - these will cause runtime failures")
    \o C17_Entry(C17_Any("category", "complexity"),
        "Refactor complex functions to improve maintainability")
    \o C17_Entry(C17_Any("category", "style"),
        "Fix style issues to improve code readability")
    \o C17_Entry(Len(issues) > 20,
        "Consider breaking this PR into smaller, more focused changes")
    \o C17_Entry(Len(issues) > 10 /\ ~(Len(issues) > 20),
        "Review the code more carefully before submitting")
    \o C17_Entry(C17_Any("tool", "bandit"),
        "Run security scans regularly in your development workflow")
    \o C17_Entry(C17_Any("tool", "radon"),
        "Consider adding complexity checks to your CI/CD pipeline")

\* C17: the recommendations of a non-empty issue set are exactly the entries
\* of the fixed list whose condition holds, in the order security remediation,
\* error fix, complexity refactor, style, split-the-change (more than 20
\* issues) or else review-more-carefully (more than 10), recurring security
\* scan, CI complexity gate; split and review never appear together.
C17_Recommendations ==
    (LastScoreReturned /\ issues # <<>>) =>
        /\ score_result.recommendations = C17_Expected
        /\ ~ \E i, j \in 1..Len(score_result.recommendations) :
                /\ score_result.recommendations[i] =
                      "Consider breaking this PR into smaller, more focused changes"
                /\ score_result.recommendations[j] =
                      "Review the code more carefully before submitting"

\* more than 20 issues with every other condition of the list true
C17_Witness ==
    /\ LastScoreReturned
    /\ Len(issues) > 20
    /\ Len(score_result.recommendations) = 7

\* the value an issue is counted under in the metrics: its field, or the
\* stated default when the field is missing
C20_Counted(issue, field, default) ==
    IF field \in DOMAIN issue THEN issue[field] ELSE default

\* counts is the histogram of the scored issues by the given field
C20_Histogram(counts, field, default) ==
    /\ DOMAIN counts = {C20_Counted(issues[k], field, default) : k \in 1..Len(issues)}
    /\ \A v \in DOMAIN counts :
          counts[v] = Cardinality({k \in 1..Len(issues) :
                                      C20_Counted(issues[k], field, default) = v})
    /\ SumOver(DOMAIN counts, counts) = Len(issues)

\* C20: in the metrics of a non-empty issue set, total_issues is the number of
\* issues; the counts of issues_by_severity, issues_by_category and
\* issues_by_tool each sum to total_issues, missing fields counted under
\* "info", "unknown" and "unknown"; files_affected is the number of distinct
\* non-empty file values; lines_affected is the number of distinct non-zero
\* line numbers across all files, the same number in two files counted once.
C20_Metrics ==
    (LastScoreReturned /\ issues # <<>>) =>
        LET m == score_result.metrics
        IN  /\ m.total_issues = Len(issues)
            /\ C20_Histogram(m.issues_by_severity, "severity", "info")
            /\ C20_Histogram(m.issues_by_category, "category", "unknown")
            /\ C20_Histogram(m.issues_by_tool, "tool", "unknown")
            /\ m.files_affected =
                  Cardinality({issues[k].file :
                      k \in {j \in 1..Len(issues) :
                                "file" \in DOMAIN issues[j] /\ issues[j].file # ""}})
            /\ m.lines_affected =
                  Cardinality({issues[k].line :
                      k \in {j \in 1..Len(issues) :
                                "line" \in DOMAIN issues[j] /\ issues[j].line # 0}})

\* the same line number reported in two files, next to a record without file
\* and line
C20_Witness ==
    /\ LastScoreReturned
    /\ \E j, k \in 1..Len(issues) :
          /\ "file" \in DOMAIN issues[j] /\ "file" \in DOMAIN issues[k]
          /\ "line" \in DOMAIN issues[j] /\ "line" \in DOMAIN issues[k]
          /\ issues[j].file # issues[k].file
          /\ issues[j].line = issues[k].line
          /\ issues[j].line # 0
    /\ \E k \in 1..Len(issues) : "file" \notin DOMAIN issues[k] /\ "line" \notin DOMAIN issues[k]

\* the list holds an issue of the given severity, category and tool
C25_Holds(severity, category, tool) ==
    \E k \in 1..Len(issues) :
        /\ Get(issues[k], "severity", "info") = severity
        /\ Get(issues[k], "category", "unknown") = category
        /\ Get(issues[k], "tool", "unknown") = tool

\* C25: any issue set that contains an error-severity issue of category error
\* together with a high-severity security-scanner issue of category security
\* gets total_score below 50 and grade D or F.
C25_ErrorAndHighSecurityFail ==
    (/\ LastScoreReturned
     /\ C25_Holds("error", "error", "flake8")
     /\ C25_Holds("high", "security", "bandit")) =>
        /\ score_result.total_score < 500
        /\ score_result.grade \in {"D", "F"}

(***************************************************************************)
(* Analyzer._deduplicate_issues.                                           *)
(***************************************************************************)
\* the key with a missing line kept apart from line 0
DedupKey_MissingLineApart(issue) == <<Get(issue, "file", ""), Get(issue, "line", -1), Get(issue, "message", "")>>

\* the key without the line number
DedupKey_NoLine(issue) == <<Get(issue, "file", ""), 0, Get(issue, "message", "")>>

\* key = (issue.get('file', ''), issue.get('line', 0), issue.get('message', ''))
DedupKey(issue) == <<Get(issue, "file", ""), Get(issue, "line", 0), Get(issue, "message", "")>>

RECURSIVE DedupLoop_Prepend(_, _, _)
\* DedupLoop with unique_issues.insert(0, issue) in place of append
DedupLoop_Prepend(rest, seen, unique) ==
    IF rest = <<>> THEN unique
    ELSE LET issue == Head(rest)
             key   == DedupKey(issue)
         IN  IF key \notin seen
             THEN DedupLoop_Prepend(Tail(rest), seen \cup {key}, <<issue>> \o unique)
             ELSE DedupLoop_Prepend(Tail(rest), seen, unique)

RECURSIVE DedupLoop(_, _, _)
\* the for loop of _deduplicate_issues over the rest of the list
DedupLoop(rest, seen, unique) ==
    IF rest = <<>> THEN unique
    ELSE LET issue == Head(rest)
             key   == DedupKey(issue)
         IN  IF key \notin seen
             THEN DedupLoop(Tail(rest), seen \cup {key}, Append(unique, issue))
             ELSE DedupLoop(Tail(rest), seen, unique)

\* _deduplicate_issues
DeduplicateIssues(iss) == DedupLoop(iss, {}, <<>>)

\* the raw issue records the deduplicator is fed: tool findings on two files,
\* the same finding reported by two tools, and a dependency-level finding
\* that carries no line
DedupIssues ==
    { [file |-> f, line |-> l, message |-> "m1", tool |-> t, severity |-> "medium", category |-> "style"] :
        f \in {"a.py", "b.py"}, l \in {0, 10}, t \in {"flake8", "bandit"} }
    \cup { [file |-> "a.py", line |-> 10, message |-> "m2", tool |-> "flake8",
            severity |-> "medium", category |-> "style"],
           [file |-> "a.py", message |-> "m1", tool |-> "safety",
            severity |-> "high", category |-> "security"] }

InitDedup ==
    /\ pc = "input"
    /\ issues = <<>>
    /\ raised = "none"
    /\ score_result = NoResult
    /\ unique_issues = <<>>
    /\ use_ai = FALSE
    /\ ai_behaviour = <<>>
    /\ feedback_items = <<>>
    /\ feedback = <<>>
    /\ WebIdle
    /\ AnalyzeIdle

\* one more raw record is appended to the concatenation of the tools' outputs
DedupAddIssue ==
    /\ pc = "input"
    /\ Len(issues) < MaxDedupLen
    /\ \E i \in DedupIssues : issues' = Append(issues, i)
    /\ UNCHANGED <<analyzeVars, webVars, pc, raised, score_result, dedupVars, feedbackVars>>

\* self._deduplicate_issues(all_issues)
Deduplicate ==
    /\ pc = "input"
    /\ unique_issues' = DeduplicateIssues(issues)
    /\ pc' = "done"
    /\ UNCHANGED <<analyzeVars, webVars, issues, raised, score_result, feedbackVars>>

\* the returned list is handed to self._deduplicate_issues once more
DeduplicateAgain ==
    /\ pc = "done"
    /\ issues' = unique_issues
    /\ unique_issues' = DeduplicateIssues(unique_issues)
    /\ pc' = "again"
    /\ UNCHANGED <<analyzeVars, webVars, raised, score_result, feedbackVars>>

\* the next analysis starts from an empty list
DedupNewRequest ==
    /\ pc \in {"done", "again"}
    /\ pc' = "input"
    /\ issues' = <<>>
    /\ unique_issues' = <<>>
    /\ UNCHANGED <<analyzeVars, webVars, raised, score_result, feedbackVars>>

NextDedup == DedupAddIssue \/ Deduplicate \/ DeduplicateAgain \/ DedupNewRequest

SpecDedup == InitDedup /\ [][NextDedup]_vars

\* the (file, line, message) key as the claims state it
C3_Key(issue) ==
    <<IF "file" \in DOMAIN issue THEN issue.file ELSE "",
      IF "line" \in DOMAIN issue THEN issue.line ELSE 0,
      IF "message" \in DOMAIN issue THEN issue.message ELSE "">>

\* the positions of the input that hold the first issue of their key
C3_FirstPositions(iss) ==
    {k \in 1..Len(iss) : \A j \in 1..(k - 1) : C3_Key(iss[j]) # C3_Key(iss[k])}

\* C3: deduplicate returns exactly one issue per distinct (file, line, message)
\* key, namely the first issue of the input carrying that key, and the
\* survivors are in the order of their first occurrence.
C3_FirstOccurrencePerKey ==
    pc = "done" =>
        LET first == C3_FirstPositions(issues)
        IN  /\ Len(unique_issues) = Cardinality(first)
            /\ \A k \in first :
                  unique_issues[Cardinality({j \in first : j <= k})] = issues[k]

\* a later issue with an already seen key, reported by another tool, was dropped
C3_Witness ==
    /\ pc = "done"
    /\ \E j, k \in 1..Len(issues) :
          /\ j < k
          /\ C3_Key(issues[j]) = C3_Key(issues[k])
          /\ issues[j].tool # issues[k].tool
          /\ \A n \in 1..Len(unique_issues) : unique_issues[n] # issues[k]
    /\ Len(unique_issues) >= 2

\* C18: deduplicate is idempotent, deduplicate(deduplicate(x)) is
\* deduplicate(x), and deduplicate of the empty sequence is empty.
C18_Idempotent ==
    /\ pc = "again" => unique_issues = issues
    /\ (pc \in {"done", "again"} /\ issues = <<>>) => unique_issues = <<>>

\* the result of a first pass that kept several records went through a second pass
C18_Witness ==
    /\ pc = "again"
    /\ Len(issues) >= 2
    /\ \E k \in 1..Len(issues) : "line" \notin DOMAIN issues[k]

\* the positions of a list whose record has the file and message of the
\* given record and line 0 or no line
C30_SameFinding(iss, record) ==
    {j \in 1..Len(iss) :
        /\ Get(iss[j], "file", "") = Get(record, "file", "")
        /\ Get(iss[j], "message", "") = Get(record, "message", "")
        /\ "line" \in DOMAIN iss[j] => iss[j].line = 0}

\* C30: a dependency-level finding, which carries the manifest placeholder
\* file and no line, is keyed as (manifest file, 0, message): the same
\* vulnerability reported once per analyzed file appears exactly once in the
\* result, and a record without a line is a duplicate of a record with line 0
\* and the same file and message.
C30_DependencyFindingOnce ==
    pc = "done" =>
        \A k \in 1..Len(issues) :
            "line" \notin DOMAIN issues[k] =>
                LET input  == C30_SameFinding(issues, issues[k])
                    result == C30_SameFinding(unique_issues, issues[k])
                IN  /\ Cardinality(result) = 1
                    /\ \A j \in result :
                          \E first \in input :
                              /\ \A other \in input : first <= other
                              /\ unique_issues[j] = issues[first]

\* the dependency finding was reported twice, after a record with line 0 and
\* the same file and message
C30_Witness ==
    /\ pc = "done"
    /\ Len(issues) >= 3
    /\ "line" \in DOMAIN issues[1]
    /\ \E j, k \in 2..Len(issues) :
          /\ j < k
          /\ "line" \notin DOMAIN issues[j]
          /\ "line" \notin DOMAIN issues[k]
          /\ 1 \in C30_SameFinding(issues, issues[k])

(***************************************************************************)
(* FeedbackGenerator: the template engine.                                 *)
(***************************************************************************)
\* self.templates['style'], the only table _generate_flake8_feedback reads
StyleTemplates ==
    [E501 |-> "Line too long ({length} characters). Consider breaking it into multiple lines or using line continuation.",
     E302 |-> "Expected 2 blank lines before class definition.",
     E305 |-> "Expected 2 blank lines after class or function definition.",
     W293 |-> "Blank line contains whitespace. Remove trailing whitespace.",
     E111 |-> "Indentation is not a multiple of four spaces.",
     E112 |-> "Expected an indented block."]

\* self.templates['error'], which no strategy reads
ErrorTemplates ==
    [F841 |-> "Variable '{var_name}' is assigned but never used. Consider removing it or using it.",
     F401 |-> "Module '{module}' imported but unused. Remove the import if not needed.",
     F821 |-> "Undefined name '{name}'. Check for typos or missing imports.",
     F823 |-> "Local variable '{var_name}' referenced before assignment."]

\* the message values of the model that are not Python strings: None, written "<None>"
NonStringMessages == {"<None>"}

\* isinstance(value, str)
IsStr(value) == value \notin NonStringMessages

\* word in message.lower(), for the messages of the model
MessageMentions(message, word) ==
    \/ word = "hardcoded" /\ message \in {"Potential hardcoded secret detected",
                                           "Possible hardcoded password"}
    \/ word = "exec" /\ message \in {"Use of exec detected"}

\* _generate_flake8_feedback
GenerateFlake8Feedback(issue) ==
    LET code    == Get(issue, "code", "")
        message == Get(issue, "message", "")
    IN  [file        |-> Get(issue, "file", ""),
         line        |-> Get(issue, "line", 0),
         severity    |-> Get(issue, "severity", "info"),
         category    |-> "style",
         message     |-> Get(StyleTemplates, code, message),
         suggestions |->
            IF code = "E501"
            THEN <<"Break long lines using parentheses, backslashes, or string concatenation">>
            ELSE IF code = "F841" THEN <<"Remove unused variable or use it in your code">>
            ELSE IF code = "F401" THEN <<"Remove unused import or use the imported module">>
            ELSE <<>>,
         code        |-> code,
         tool        |-> "flake8"]

\* GenerateSecurityFeedback without the "Security issue: " marker
GenerateSecurityFeedback_NoPrefix(issue) ==
    LET message == Get(issue, "message", "")
    IN  [file        |-> Get(issue, "file", ""),
         line        |-> Get(issue, "line", 0),
         severity    |-> Get(issue, "severity", "high"),
         category    |-> "security",
         message     |-> message,
         suggestions |->
            IF MessageMentions(message, "hardcoded")
            THEN <<"Use environment variables or secure configuration management",
                   "Consider using a secrets management service">>
            ELSE IF MessageMentions(message, "exec")
            THEN <<"Avoid using exec() with user input",
                   "Consider using safer alternatives like ast.literal_eval()">>
            ELSE <<>>,
         test_id     |-> Get(issue, "test_id", ""),
         confidence  |-> Get(issue, "confidence", "medium"),
         tool        |-> "bandit"]

\* _generate_security_feedback
GenerateSecurityFeedback(issue) ==
    LET message == Get(issue, "message", "")
    IN  [file        |-> Get(issue, "file", ""),
         line        |-> Get(issue, "line", 0),
         severity    |-> Get(issue, "severity", "high"),
         category    |-> "security",
         message     |-> "Security issue: " \o message,
         suggestions |->
            IF MessageMentions(message, "hardcoded")
            THEN <<"Use environment variables or secure configuration management",
                   "Consider using a secrets management service">>
            ELSE IF MessageMentions(message, "exec")
            THEN <<"Avoid using exec() with user input",
                   "Consider using safer alternatives like ast.literal_eval()">>
            ELSE <<>>,
         test_id     |-> Get(issue, "test_id", ""),
         confidence  |-> Get(issue, "confidence", "medium"),
         tool        |-> "bandit"]

\* _generate_complexity_feedback
GenerateComplexityFeedback(issue) ==
    LET complexity == Get(issue, "complexity", 0)
        function   == Get(issue, "function", "unknown")
    IN  [file        |-> Get(issue, "file", ""),
         line        |-> Get(issue, "line", 0),
         severity    |-> Get(issue, "severity", "medium"),
         category    |-> "complexity",
         message     |-> "High complexity in " \o function \o " (" \o ToString(complexity) \o ")",
         suggestions |-> <<"Break the function into smaller, single-purpose functions",
                           "Extract complex logic into separate methods",
                           "Consider using design patterns like Strategy or Command",
                           "Add early returns to reduce nesting">>,
         complexity  |-> complexity,
         tool        |-> "radon"]

\* _generate_custom_feedback
GenerateCustomFeedback(issue) ==
    LET category == Get(issue, "category", "unknown")
    IN  [file        |-> Get(issue, "file", ""),
         line        |-> Get(issue, "line", 0),
         severity    |-> Get(issue, "severity", "low"),
         category    |-> category,
         message     |-> Get(issue, "message", ""),
         suggestions |->
            IF category = "security"
            THEN <<"Review the code for potential security vulnerabilities",
                   "Consider using secure coding practices">>
            ELSE IF category = "maintenance"
            THEN <<"Address TODO/FIXME comments before merging",
                   "Consider creating issues for future improvements">>
            ELSE <<>>,
         tool        |-> "custom"]

\* GenerateGenericFeedback with the message replaced by the default text
GenerateGenericFeedback_DefaultMessage(issue) ==
    [file        |-> Get(issue, "file", ""),
     line        |-> Get(issue, "line", 0),
     severity    |-> Get(issue, "severity", "info"),
     category    |-> Get(issue, "category", "unknown"),
     message     |-> "Unknown issue",
     suggestions |-> <<"Review the code for potential improvements">>,
     tool        |-> Get(issue, "tool", "unknown")]

\* _generate_generic_feedback
GenerateGenericFeedback(issue) ==
    [file        |-> Get(issue, "file", ""),
     line        |-> Get(issue, "line", 0),
     severity    |-> Get(issue, "severity", "info"),
     category    |-> Get(issue, "category", "unknown"),
     message     |-> Get(issue, "message", "Unknown issue"),
     suggestions |-> <<"Review the code for potential improvements">>,
     tool        |-> Get(issue, "tool", "unknown")]

\* the dispatch by tool of _generate_template_feedback, for one issue
TemplateFeedbackFor(issue) ==
    LET tool == Get(issue, "tool", "unknown")
    IN  IF tool = "flake8" THEN GenerateFlake8Feedback(issue)
        ELSE IF tool = "bandit" THEN GenerateSecurityFeedback(issue)
        ELSE IF tool = "radon" THEN GenerateComplexityFeedback(issue)
        ELSE IF tool = "custom" THEN GenerateCustomFeedback(issue)
        ELSE GenerateGenericFeedback(issue)

\* _generate_security_feedback raises AttributeError at message.lower() (line
\* 135) when the message is not a string; no other strategy calls a method
\* of the message
TemplateRaisesFor(issue) ==
    /\ Get(issue, "tool", "unknown") = "bandit"
    /\ ~IsStr(Get(issue, "message", ""))

\* _generate_template_feedback has no try: the first raising issue ends it
GenerateTemplateRaises(iss) == \E k \in 1..Len(iss) : TemplateRaisesFor(iss[k])

\* _generate_template_feedback
GenerateTemplateFeedback(iss) == [k \in 1..Len(iss) |-> TemplateFeedbackFor(iss[k])]

(***************************************************************************)
(* FeedbackGenerator._prioritize_feedback.                                 *)
(***************************************************************************)
\* a list element that is not a dict (a str, None, a number)
NotADict == [pytype |-> "str"]

IsDict(x) == "pytype" \notin DOMAIN x

\* the category names of the model in the order Python compares str
CategoryNamesSorted ==
    <<"ai_feedback", "ai_suggestion", "analysis_error", "complexity", "error", "maintainability",
      "maintenance", "security", "style", "unknown">>

\* a < b for two category strings
StrLess(a, b) ==
    LET at(x) == CHOOSE k \in 1..Len(CategoryNamesSorted) : CategoryNamesSorted[k] = x
    IN  at(a) < at(b)

\* severity_order.get(severity, 5)
severity_order(severity) ==
    IF severity = "error" THEN 0
    ELSE IF severity = "high" THEN 1
    ELSE IF severity = "medium" THEN 2
    ELSE IF severity = "low" THEN 3
    ELSE IF severity = "info" THEN 4
    ELSE 5

\* sort_key(item)
SortKey(item) ==
    <<severity_order(Get(item, "severity", "info")),
      Get(item, "category", "unknown"),
      Get(item, "line", 0)>>

\* tuple comparison k1 < k2 of two sort keys
KeyLess(k1, k2) ==
    \/ k1[1] < k2[1]
    \/ k1[1] = k2[1] /\ StrLess(k1[2], k2[2])
    \/ k1[1] = k2[1] /\ k1[2] = k2[2] /\ k1[3] < k2[3]

\* InsertByKey that puts the item before the items of equal key
InsertByKey_BeforeEquals(sorted, item) ==
    LET later == {k \in 1..Len(sorted) : ~KeyLess(SortKey(sorted[k]), SortKey(item))}
        n     == IF later = {} THEN Len(sorted) + 1
                 ELSE CHOOSE k \in later : \A j \in later : k <= j
    IN  SubSeq(sorted, 1, n - 1) \o <<item>> \o SubSeq(sorted, n, Len(sorted))

\* one step of the stable sort: the item goes behind every item whose key is
\* not greater than its own
InsertByKey(sorted, item) ==
    LET later == {k \in 1..Len(sorted) : KeyLess(SortKey(item), SortKey(sorted[k]))}
        n     == IF later = {} THEN Len(sorted) + 1
                 ELSE CHOOSE k \in later : \A j \in later : k <= j
    IN  SubSeq(sorted, 1, n - 1) \o <<item>> \o SubSeq(sorted, n, Len(sorted))

RECURSIVE SortedByKey(_)
\* sorted(feedback_items, key=sort_key): Python's sort is stable
SortedByKey(items) ==
    IF items = <<>> THEN <<>>
    ELSE InsertByKey(SortedByKey(SubSeq(items, 1, Len(items) - 1)), items[Len(items)])

\* PrioritizeFeedback that returns the list as it was concatenated
PrioritizeFeedback_NoSort(items) ==
    IF \E k \in 1..Len(items) : ~IsDict(items[k])
    THEN <<"AttributeError", <<>>>>
    ELSE <<"none", items>>

\* _prioritize_feedback: <<raised, result>>; sort_key calls item.get, which
\* raises AttributeError on an element that is not a dict
PrioritizeFeedback(items) ==
    IF \E k \in 1..Len(items) : ~IsDict(items[k])
    THEN <<"AttributeError", <<>>>>
    ELSE <<"none", SortedByKey(items)>>

(***************************************************************************)
(* Calls of _prioritize_feedback on a list of feedback items.              *)
(***************************************************************************)
\* the feedback items the prioritizer is fed
PrioItems ==
    { [file |-> "test.py", line |-> 1, severity |-> "low", category |-> "style", message |-> "Low priority issue"],
      [file |-> "test.py", line |-> 3, severity |-> "error", category |-> "error", message |-> "Error issue"],
      [file |-> "test.py", line |-> 2, severity |-> "medium", category |-> "style", message |-> "Medium priority issue"],
      [file |-> "test.py", line |-> 2, severity |-> "high", category |-> "security", message |-> "High priority issue"],
      [file |-> "b.py", line |-> 2, severity |-> "high", category |-> "security", message |-> "Another high priority issue"],
      [file |-> "b.py", line |-> 10, severity |-> "high", category |-> "security", message |-> "High priority issue"],
      [file |-> "b.py", line |-> 2, severity |-> "high", category |-> "complexity", message |-> "High complexity"],
      [file |-> "b.py", line |-> 1, severity |-> "warning", category |-> "style", message |-> "Unknown severity"],
      [file |-> "b.py", line |-> 1, category |-> "style", message |-> "No severity"] }

InitPrio ==
    /\ pc = "input"
    /\ issues = <<>>
    /\ raised = "none"
    /\ score_result = NoResult
    /\ unique_issues = <<>>
    /\ use_ai = FALSE
    /\ ai_behaviour = <<>>
    /\ feedback_items = <<>>
    /\ feedback = <<>>
    /\ WebIdle
    /\ AnalyzeIdle

\* one more item is appended to the list
PrioAddItem ==
    /\ pc = "input"
    /\ Len(feedback_items) < MaxPrioLen
    /\ \E i \in PrioItems : feedback_items' = Append(feedback_items, i)
    /\ UNCHANGED <<analyzeVars, webVars, pc, issues, raised, score_result, dedupVars, use_ai, ai_behaviour, feedback>>

\* self._prioritize_feedback(feedback_items)
Prioritize ==
    /\ pc = "input"
    /\ raised' = PrioritizeFeedback(feedback_items)[1]
    /\ feedback' = PrioritizeFeedback(feedback_items)[2]
    /\ pc' = "done"
    /\ UNCHANGED <<analyzeVars, webVars, issues, score_result, dedupVars, use_ai, ai_behaviour, feedback_items>>

\* the next call starts from an empty list
PrioNewRequest ==
    /\ pc = "done"
    /\ pc' = "input"
    /\ raised' = "none"
    /\ feedback_items' = <<>>
    /\ feedback' = <<>>
    /\ UNCHANGED <<analyzeVars, webVars, issues, score_result, dedupVars, use_ai, ai_behaviour>>

NextPrio == PrioAddItem \/ Prioritize \/ PrioNewRequest

SpecPrio == InitPrio /\ [][NextPrio]_vars

\* the severity rank as the claim C7 states it
C7_Rank(item) ==
    LET severity == IF "severity" \in DOMAIN item THEN item.severity ELSE "info"
    IN  CASE severity = "error"  -> 0
          [] severity = "high"   -> 1
          [] severity = "medium" -> 2
          [] severity = "low"    -> 3
          [] severity = "info"   -> 4
          [] OTHER               -> 5

\* item a sorts strictly before item b by (severityRank, category, line)
C7_Before(a, b) ==
    \/ C7_Rank(a) < C7_Rank(b)
    \/ C7_Rank(a) = C7_Rank(b) /\ StrLess(a.category, b.category)
    \/ C7_Rank(a) = C7_Rank(b) /\ a.category = b.category /\ a.line < b.line

\* the output position of input position k under a stable ascending sort
C7_Position(items, k) ==
    Cardinality({j \in 1..Len(items) : C7_Before(items[j], items[k])})
    + Cardinality({j \in 1..k : ~C7_Before(items[j], items[k]) /\ ~C7_Before(items[k], items[j])})

\* C7: prioritize returns a permutation of its input sorted ascending by
\* (severityRank, category, line), unknown severities last, and items with
\* equal keys keep their relative input order.
C7_StableSortByKey ==
    pc = "done" =>
        /\ raised = "none"
        /\ Len(feedback) = Len(feedback_items)
        /\ \A k \in 1..Len(feedback_items) :
              feedback[C7_Position(feedback_items, k)] = feedback_items[k]
        /\ \A i, j \in 1..Len(feedback) :
              i < j => ~C7_Before(feedback[j], feedback[i])

\* the items of severities low, error, medium, high come out as error, high,
\* medium, low
C7_Witness ==
    /\ pc = "done"
    /\ Len(feedback_items) = 4
    /\ [k \in 1..4 |-> Get(feedback_items[k], "severity", "none")] = <<"low", "error", "medium", "high">>
    /\ [k \in 1..4 |-> Get(feedback[k], "severity", "none")] = <<"error", "high", "medium", "low">>

(***************************************************************************)
(* FeedbackGenerator.generate.                                             *)
(***************************************************************************)
\* file_path = issue.get('file', 'unknown')
FileOf(issue) == Get(issue, "file", "unknown")

RECURSIVE FileOrder(_)
\* the keys of issues_by_file in insertion order: the files in the order of
\* their first appearance
FileOrder(iss) ==
    IF iss = <<>> THEN <<>>
    ELSE LET before == FileOrder(SubSeq(iss, 1, Len(iss) - 1))
             f      == FileOf(iss[Len(iss)])
         IN  IF \E k \in 1..Len(before) : before[k] = f THEN before ELSE Append(before, f)

\* issues_by_file[file_path]
IssuesOfFile(iss, f) == SelectSeq(iss, LAMBDA i : FileOf(i) = f)

\* what the external collaborator can do when called for one file's group
AIBehaviours == {"raises", "returns_items", "returns_none", "returns_strings", "returns_empty"}

\* the feedback records a successful collaborator returns: one suggestion per
\* issue, shaped as AIHelper._parse_ai_response shapes them
AISuggestions(file_issues) ==
    [k \in 1..Len(file_issues) |->
        [file        |-> Get(file_issues[k], "file", ""),
         line        |-> Get(file_issues[k], "line", 0),
         severity    |-> "medium",
         category    |-> "ai_suggestion",
         message     |-> "Suggested fix",
         suggestions |-> <<"Why this fix is important">>,
         tool        |-> "ai"]]

\* the single record AIHelper._parse_ai_response falls back to when the
\* response holds no JSON object it can load
AITextItem(file_issues) ==
    [file        |-> IF file_issues # <<>> THEN Get(file_issues[1], "file", "") ELSE "",
     line        |-> 0,
     severity    |-> "info",
     category    |-> "ai_feedback",
     message     |-> "AI Feedback: ...",
     suggestions |-> <<>>,
     tool        |-> "ai"]

\* self.ai_helper.generate_feedback(file_path, file_issues) under a behaviour
AIGenerateFeedback(behaviour, file_issues) ==
    IF behaviour = "raises" THEN [kind |-> "raise"]
    ELSE IF behaviour = "returns_none" THEN [kind |-> "none"]
    ELSE IF behaviour = "returns_items" THEN [kind |-> "list", items |-> AISuggestions(file_issues)]
    ELSE IF behaviour = "returns_strings" THEN [kind |-> "list", items |-> <<NotADict>>]
    ELSE IF behaviour = "returns_text" THEN [kind |-> "list", items |-> <<AITextItem(file_issues)>>]
    ELSE [kind |-> "list", items |-> <<>>]

\* GroupFeedback without the except branch's fallback
GroupFeedback_NoFallback(ai, behaviour, file_issues) ==
    IF ai
    THEN LET ai_feedback == AIGenerateFeedback(behaviour, file_issues)
         IN  IF ai_feedback.kind = "list" THEN ai_feedback.items ELSE <<>>
    ELSE GenerateTemplateFeedback(file_issues)

\* the body of the loop over issues_by_file (lines 58-69): what one file's
\* group adds to feedback_items.  A raise of the collaborator and the
\* TypeError of feedback_items.extend(None) both end in the except branch.
GroupFeedback(ai, behaviour, file_issues) ==
    IF ai
    THEN LET ai_feedback == AIGenerateFeedback(behaviour, file_issues)
         IN  IF ai_feedback.kind = "list" THEN ai_feedback.items
             ELSE GenerateTemplateFeedback(file_issues)
    ELSE GenerateTemplateFeedback(file_issues)

RECURSIVE ConcatGroups(_, _, _, _)
\* feedback_items after the loop has visited the files of order
ConcatGroups(order, iss, ai, behaviour) ==
    IF order = <<>> THEN <<>>
    ELSE GroupFeedback(ai, behaviour[Head(order)], IssuesOfFile(iss, Head(order)))
         \o ConcatGroups(Tail(order), iss, ai, behaviour)

\* the list generate hands to _prioritize_feedback
CollectFeedback(iss, ai, behaviour) == ConcatGroups(FileOrder(iss), iss, ai, behaviour)

\* the group of file f is handed to _generate_template_feedback: the else
\* branch, or the except branch after the collaborator failed
UsesTemplates(iss, ai, behaviour, f) ==
    \/ ~ai
    \/ AIGenerateFeedback(behaviour[f], IssuesOfFile(iss, f)).kind # "list"

\* a template strategy raises in some group; in the else branch and in the
\* except branch alike nothing catches it
GenerateRaisesInTemplates(iss, ai, behaviour) ==
    \E f \in {FileOf(iss[k]) : k \in 1..Len(iss)} :
        /\ UsesTemplates(iss, ai, behaviour, f)
        /\ GenerateTemplateRaises(IssuesOfFile(iss, f))

\* FeedbackGenerator.generate: <<raised, feedback_items, returned feedback>>
GenerateOutcome(iss, ai, behaviour) ==
    IF GenerateRaisesInTemplates(iss, ai, behaviour)
    THEN <<"AttributeError", <<>>, <<>>>>
    ELSE LET collected == CollectFeedback(iss, ai, behaviour)
         IN  <<PrioritizeFeedback(collected)[1], collected, PrioritizeFeedback(collected)[2]>>

\* the issues generate is called with
FeedbackIssues ==
    { [file |-> "a.py", line |-> 10, severity |-> "high", category |-> "security",
       tool |-> "bandit", message |-> "Potential hardcoded secret detected"],
      [file |-> "b.py", line |-> 10, severity |-> "high", category |-> "security",
       tool |-> "bandit", message |-> "Use of exec detected"],
      [file |-> "a.py", line |-> 1, severity |-> "medium", category |-> "style",
       tool |-> "flake8", message |-> "line too long", code |-> "E501"],
      [file |-> "b.py", line |-> 2, severity |-> "low", category |-> "maintenance",
       tool |-> "custom", message |-> "TODO comment found"],
      [file |-> "b.py", line |-> 5, severity |-> "medium", category |-> "complexity",
       tool |-> "radon", message |-> "High complexity", function |-> "parse", complexity |-> 12],
      [file |-> "a.py", line |-> 0, severity |-> "high", category |-> "security",
       tool |-> "safety", message |-> "Vulnerable dependency"] }

\* the set of files of a list
FilesOf(iss) == {FileOf(iss[k]) : k \in 1..Len(iss)}

InitFeedback ==
    /\ pc = "input"
    /\ issues = <<>>
    /\ raised = "none"
    /\ score_result = NoResult
    /\ unique_issues = <<>>
    /\ use_ai \in BOOLEAN
    /\ ai_behaviour = <<>>
    /\ feedback_items = <<>>
    /\ feedback = <<>>
    /\ WebIdle
    /\ AnalyzeIdle

\* the caller appends one more issue to the list
FeedbackAddIssue ==
    /\ pc = "input"
    /\ Len(issues) < MaxFeedbackLen
    /\ \E i \in FeedbackIssues : issues' = Append(issues, i)
    /\ UNCHANGED <<analyzeVars, webVars, pc, raised, score_result, dedupVars, feedbackVars>>

\* FeedbackGenerator.generate(issues); the collaborator behaves in any of
\* AIBehaviours for each file it is called for
Generate ==
    /\ pc = "input"
    /\ \E b \in [FilesOf(issues) -> AIBehaviours] :
          LET outcome == GenerateOutcome(issues, use_ai, b)
          IN  /\ ai_behaviour' = IF use_ai THEN b ELSE [f \in FilesOf(issues) |-> "not_called"]
              /\ raised' = outcome[1]
              /\ feedback_items' = outcome[2]
              /\ feedback' = outcome[3]
    /\ pc' = "done"
    /\ UNCHANGED <<analyzeVars, webVars, issues, score_result, dedupVars, use_ai>>

\* the next request: a fresh generator and an empty list
FeedbackNewRequest ==
    /\ pc = "done"
    /\ pc' = "input"
    /\ issues' = <<>>
    /\ raised' = "none"
    /\ use_ai' \in BOOLEAN
    /\ ai_behaviour' = <<>>
    /\ feedback_items' = <<>>
    /\ feedback' = <<>>
    /\ UNCHANGED <<analyzeVars, webVars, score_result, dedupVars>>

NextFeedback == FeedbackAddIssue \/ Generate \/ FeedbackNewRequest

SpecFeedback == InitFeedback /\ [][NextFeedback]_vars

\* the number of times x occurs in s
C4_Count(s, x) == Cardinality({k \in 1..Len(s) : s[k] = x})

\* s and t hold the same items the same number of times
C4_SameItems(s, t) ==
    /\ Len(s) = Len(t)
    /\ \A k \in 1..Len(s) : C4_Count(s, s[k]) = C4_Count(t, s[k])

\* the items of the returned feedback that belong to file f
C4_FeedbackOf(f) == SelectSeq(feedback, LAMBDA item : item.file = f)

\* the template items of the issues of file f
C4_TemplateItems(f) ==
    LET mine == SelectSeq(issues, LAMBDA i : i.file = f)
    IN  [k \in 1..Len(mine) |-> TemplateFeedbackFor(mine[k])]

\* the external items of the issues of file f
C4_ExternalItems(f) == AISuggestions(SelectSeq(issues, LAMBDA i : i.file = f))

\* C4: when the external collaborator raises for one file's group and succeeds
\* for another file's group in the same generate call, the feedback holds the
\* template items for every issue of the failing file and the external items
\* of the succeeding file.
C4_PerFileFallback ==
    ( /\ pc = "done"
      /\ use_ai
      /\ \A f \in DOMAIN ai_behaviour : ai_behaviour[f] \in {"raises", "returns_items"}
      /\ \E f \in DOMAIN ai_behaviour : ai_behaviour[f] = "raises"
      /\ \E f \in DOMAIN ai_behaviour : ai_behaviour[f] = "returns_items" )
    => /\ raised = "none"
       /\ Len(feedback) = Len(issues)
       /\ \A f \in DOMAIN ai_behaviour :
             IF ai_behaviour[f] = "raises"
             THEN /\ C4_SameItems(C4_FeedbackOf(f), C4_TemplateItems(f))
                  /\ \A k \in 1..Len(C4_FeedbackOf(f)) : C4_FeedbackOf(f)[k].tool # "ai"
             ELSE /\ C4_SameItems(C4_FeedbackOf(f), C4_ExternalItems(f))
                  /\ \A k \in 1..Len(C4_FeedbackOf(f)) : C4_FeedbackOf(f)[k].tool = "ai"

\* the collaborator raised for a.py, which has two issues, and succeeded for b.py
C4_Witness ==
    /\ pc = "done"
    /\ use_ai
    /\ DOMAIN ai_behaviour = {"a.py", "b.py"}
    /\ ai_behaviour["a.py"] = "raises"
    /\ ai_behaviour["b.py"] = "returns_items"
    /\ Len(C4_FeedbackOf("a.py")) = 2
    /\ Len(C4_FeedbackOf("b.py")) = 1

\* C5: generate never propagates a failure of the external collaborator:
\* whether it raises, returns something that is not a sequence, or returns a
\* sequence with elements that are not feedback records, generate returns
\* normally and the affected file's issues are covered by template feedback.
C5_CollaboratorFailureContained ==
    (pc = "done" /\ use_ai) =>
        /\ raised = "none"
        /\ \A f \in DOMAIN ai_behaviour :
              ai_behaviour[f] \in {"raises", "returns_none", "returns_strings"}
                  => C4_SameItems(C4_FeedbackOf(f), C4_TemplateItems(f))

\* the orders in which the per-file groups can be concatenated
C6_Orders ==
    LET files == FilesOf(issues)
        n     == Cardinality(files)
    IN  {o \in [1..n -> files] : \A i, j \in 1..n : o[i] = o[j] => i = j}

\* what prioritize returns when the groups are concatenated in the given order
C6_PrioritizedIn(order) ==
    PrioritizeFeedback(ConcatGroups(order, issues, use_ai, ai_behaviour))[2]

\* the (severityRank, category, line) key of an item
C6_Key(item) == <<C7_Rank(item), item.category, item.line>>

\* C6 as stated: for any two concatenation orders of the same per-file
\* groups, prioritize returns the same sequence.
C6_OrderIndependent ==
    (pc = "done" /\ raised = "none") =>
        \A o \in C6_Orders : C6_PrioritizedIn(o) = feedback

\* no two items of different files carry the same key
C6_NoTieAcrossFiles ==
    \A i, j \in 1..Len(feedback_items) :
        feedback_items[i].file # feedback_items[j].file
            => C6_Key(feedback_items[i]) # C6_Key(feedback_items[j])

\* C6 amended: for any two concatenation orders of the same per-file groups,
\* prioritize returns sequences that carry the same (severityRank, category,
\* line) key at every position, and the same sequence whenever no two items
\* of different files share a key.
C6_OrderIndependentUpToTies ==
    (pc = "done" /\ raised = "none") =>
        \A o \in C6_Orders :
            LET other == C6_PrioritizedIn(o)
            IN  /\ Len(other) = Len(feedback)
                /\ \A k \in 1..Len(feedback) : C6_Key(other[k]) = C6_Key(feedback[k])
                /\ C6_NoTieAcrossFiles => other = feedback

\* feedback of two files was prioritized, with and without a tie across files
C6_Witness ==
    /\ pc = "done"
    /\ raised = "none"
    /\ Cardinality(FilesOf(issues)) = 2
    /\ Len(feedback) = 3
    /\ C6_NoTieAcrossFiles
    /\ feedback # feedback_items

(***************************************************************************)
(* The review of one pull request without an API key (main.py analyze_pr,  *)
(* steps 3 and 4): template feedback for the analyzer's issues, then the   *)
(* score of the same issues.                                               *)
(***************************************************************************)
\* the issue of the scenario, as reported by the given tool
ScenarioIssue(tool) ==
    [file |-> "x.py", line |-> 10, severity |-> "high", category |-> "security",
     tool |-> tool, message |-> "Potential hardcoded secret detected"]

\* the issues a review is run on
ReviewIssues ==
    { ScenarioIssue("bandit"),
      ScenarioIssue("bandit-like"),
      \* a finding of the security scanner whose message is None
      [file |-> "x.py", line |-> 12, severity |-> "high", category |-> "security",
       tool |-> "bandit", message |-> "<None>"],
      \* a finding of another tool whose message is None
      [file |-> "y.py", line |-> 3, severity |-> "low", category |-> "maintenance",
       tool |-> "custom", message |-> "<None>"],
      [file |-> "x.py", line |-> 1, severity |-> "medium", category |-> "style",
       tool |-> "flake8", message |-> "line too long", code |-> "E501"],
      [file |-> "y.py", line |-> 5, severity |-> "medium", category |-> "complexity",
       tool |-> "radon", message |-> "High complexity (12) - consider refactoring",
       function |-> "parse", complexity |-> 12],
      \* findings of the style checker: a code of the 'error' table, a code of
      \* the 'style' table starting with W, a code of no table
      [file |-> "x.py", line |-> 2, severity |-> "error", category |-> "style",
       tool |-> "flake8", message |-> "local variable is assigned to but never used", code |-> "F841"],
      [file |-> "y.py", line |-> 8, severity |-> "warning", category |-> "style",
       tool |-> "flake8", message |-> "blank line contains whitespace", code |-> "W293"],
      [file |-> "y.py", line |-> 7, severity |-> "info", category |-> "style",
       tool |-> "flake8", message |-> "function is too complex", code |-> "C901"],
      \* a finding of the dependency scanner and a record without a tool
      [file |-> "requirements.txt", severity |-> "high", category |-> "security",
       tool |-> "safety", message |-> "Vulnerable dependency: requests 2.0"],
      [file |-> "y.py", line |-> 9, message |-> "Issue with missing fields"] }

InitReview ==
    /\ pc = "input"
    /\ issues = <<>>
    /\ raised = "none"
    /\ score_result = NoResult
    /\ unique_issues = <<>>
    /\ use_ai = FALSE
    /\ ai_behaviour = <<>>
    /\ feedback_items = <<>>
    /\ feedback = <<>>
    /\ WebIdle
    /\ AnalyzeIdle

\* the analyzer reports one more issue
ReviewAddIssue ==
    /\ pc = "input"
    /\ Len(issues) < MaxReviewLen
    /\ \E i \in ReviewIssues : issues' = Append(issues, i)
    /\ UNCHANGED <<analyzeVars, webVars, pc, raised, score_result, dedupVars, feedbackVars>>

\* feedback = feedback_generator.generate(issues); score_data = scorer.score(issues).
\* A raise of generate ends the review before the score is computed.
Review ==
    /\ pc = "input"
    /\ LET not_called == [f \in FilesOf(issues) |-> "not_called"]
           outcome    == GenerateOutcome(issues, FALSE, not_called)
       IN  /\ ai_behaviour' = not_called
           /\ feedback_items' = outcome[2]
           /\ feedback' = outcome[3]
           /\ IF outcome[1] # "none"
              THEN /\ raised' = outcome[1]
                   /\ score_result' = NoResult
              ELSE \E o \in ScoreOutcomes(issues) :
                      /\ raised' = o[1]
                      /\ score_result' = o[2]
    /\ pc' = "done"
    /\ UNCHANGED <<analyzeVars, webVars, issues, dedupVars, use_ai>>

\* the next pull request
ReviewNewRequest ==
    /\ pc = "done"
    /\ pc' = "input"
    /\ issues' = <<>>
    /\ raised' = "none"
    /\ score_result' = NoResult
    /\ ai_behaviour' = <<>>
    /\ feedback_items' = <<>>
    /\ feedback' = <<>>
    /\ UNCHANGED <<analyzeVars, webVars, dedupVars, use_ai>>

NextReview == ReviewAddIssue \/ Review \/ ReviewNewRequest

SpecReview == InitReview /\ [][NextReview]_vars

\* the message of the item starts with "Security issue:"
C15_StartsWithSecurityIssue(item) ==
    \E i \in ReviewIssues : item.message = "Security issue: " \o i.message

\* what the scenario promises for the review of the one-issue list <<issue>>
C15_Scenario(issue) ==
    (pc = "done" /\ issues = <<issue>>) =>
        /\ raised = "none"
        /\ score_result.total_score < 1000
        /\ score_result.breakdown["security"] < 10000
        /\ \E k \in 1..Len(score_result.recommendations) :
              score_result.recommendations[k] =
                  "Address security issues immediately - these are critical for production safety"
        /\ Len(feedback) = 1
        /\ C15_StartsWithSecurityIssue(feedback[1])
        /\ feedback[1].suggestions # <<>>

\* C15: for the single issue {file x.py, line 10, severity high, category
\* security, tool "bandit-like", message "Potential hardcoded secret
\* detected"}, score yields total_score < 100, breakdown["security"] < 100 and
\* a security-remediation recommendation, and generating feedback yields
\* exactly one item whose message starts with "Security issue:" and whose
\* suggestions list is non-empty.
C15_ScenarioBanditLike == C15_Scenario(ScenarioIssue("bandit-like"))

\* C15 as amended: the same scenario with the tool "bandit", the identifier
\* the template dispatch recognises as the security scanner.
C15_ScenarioBandit == C15_Scenario(ScenarioIssue("bandit"))

\* the review of the one-issue list of the amended scenario has returned
C15_Witness ==
    /\ pc = "done"
    /\ issues = <<ScenarioIssue("bandit")>>
    /\ raised = "none"
    /\ Len(feedback) = 1

\* C16: in the template path, when the tool-specific strategy of one issue
\* fails (a security-scanner issue whose message is not a string), generate
\* is not aborted: it returns one item per issue, the generic fallback item
\* for the failing issue and the usual template item for every other issue.
C16_TemplateFailureContained ==
    (pc = "done" /\ \E k \in 1..Len(issues) : TemplateRaisesFor(issues[k])) =>
        /\ raised = "none"
        /\ Len(feedback) = Len(issues)
        /\ \A k \in 1..Len(issues) :
              \E j \in 1..Len(feedback) :
                  feedback[j] = (IF TemplateRaisesFor(issues[k])
                                 THEN GenerateGenericFeedback(issues[k])
                                 ELSE TemplateFeedbackFor(issues[k]))

\* the feedback list has an item with the file, the line and, when the issue
\* has one, the severity of the issue
C26_HasItemFor(issue) ==
    \E j \in 1..Len(feedback) :
        /\ feedback[j].file = Get(issue, "file", "")
        /\ feedback[j].line = Get(issue, "line", 0)
        /\ "severity" \in DOMAIN issue => feedback[j].severity = issue.severity

\* C26: with external feedback disabled, generate returns exactly one
\* feedback item per input issue, and each item carries the file and line of
\* its source issue and, when the issue has one, its severity.
C26_OneItemPerIssue ==
    (pc = "done" /\ ~use_ai) =>
        /\ Len(feedback) = Len(issues)
        /\ \A k \in 1..Len(issues) : C26_HasItemFor(issues[k])

\* the message the claim C27 gives a style-checker issue: the text of the
\* template table that lists its rule code, else its own message
C27_Message(issue) ==
    LET code == Get(issue, "code", "")
    IN  IF code \in DOMAIN StyleTemplates THEN StyleTemplates[code]
        ELSE IF code \in DOMAIN ErrorTemplates THEN ErrorTemplates[code]
        ELSE Get(issue, "message", "")

\* C27: for an issue from the style checker, the feedback message is the
\* canned template text whenever the issue's rule code appears in the
\* template table (style codes such as E501 and W293, error codes such as
\* F841 and F401), and the issue's own message otherwise; the item carries
\* between 0 and 2 suggestions.
C27_StyleCheckerMessage ==
    (pc = "done" /\ raised # "AttributeError") =>
        \A k \in 1..Len(issues) :
            Get(issues[k], "tool", "unknown") = "flake8" =>
                \E j \in 1..Len(feedback) :
                    /\ feedback[j].tool = "flake8"
                    /\ feedback[j].file = issues[k].file
                    /\ feedback[j].line = issues[k].line
                    /\ feedback[j].message = C27_Message(issues[k])
                    /\ Len(feedback[j].suggestions) \in 0..2

\* the tools with a strategy of their own
C28_SpecificTools == {"flake8", "bandit", "radon", "custom"}

\* the item passes the issue's field through when the issue has it
C28_PassesThrough(item, issue, field) ==
    field \in DOMAIN issue => item[field] = issue[field]

\* the issues of the list that go to the generic fallback
C28_GenericIssues ==
    {k \in 1..Len(issues) : Get(issues[k], "tool", "unknown") \notin C28_SpecificTools}

\* C28: for every issue whose tool is none of the style checker, security
\* scanner, complexity analyzer or built-in heuristic checker (the dependency
\* scanner and a missing tool included), template feedback passes the issue's
\* message, severity, category and tool through unchanged and carries exactly
\* one suggestion.
C28_GenericFallback ==
    (pc = "done" /\ raised # "AttributeError") =>
        \A k \in C28_GenericIssues :
            \E j \in 1..Len(feedback) :
                /\ feedback[j].file = Get(issues[k], "file", "")
                /\ feedback[j].line = Get(issues[k], "line", 0)
                /\ C28_PassesThrough(feedback[j], issues[k], "message")
                /\ C28_PassesThrough(feedback[j], issues[k], "severity")
                /\ C28_PassesThrough(feedback[j], issues[k], "category")
                /\ C28_PassesThrough(feedback[j], issues[k], "tool")
                /\ Len(feedback[j].suggestions) = 1

\* feedback was generated for a dependency-scanner finding, a record without
\* a tool and a finding of an unlisted tool
C28_Witness ==
    /\ pc = "done"
    /\ raised # "AttributeError"
    /\ Cardinality(C28_GenericIssues) = 3
    /\ \E k \in C28_GenericIssues : Get(issues[k], "tool", "unknown") = "safety"
    /\ \E k \in C28_GenericIssues : "tool" \notin DOMAIN issues[k]
    /\ \E k \in C28_GenericIssues : Get(issues[k], "tool", "unknown") = "bandit-like"

(***************************************************************************)
(* The web service (demo/web_demo.py): /api/analyze stores its results in  *)
(* module globals and /api/export reports them.  The handlers contain no   *)
(* await, so each request runs to completion.                              *)
(***************************************************************************)
\* the pull requests fetcher.get_pr can return
WebPRs ==
    { [id |-> 1, title |-> "Add parser", diffs |-> <<[file |-> "a.py", status |-> "modified"]>>],
      [id |-> 2, title |-> "Fix typo", diffs |-> <<[file |-> "b.py", status |-> "modified"]>>] }

\* the raw findings of the tools on those pull requests
WebIssues ==
    { [file |-> "a.py", line |-> 10, severity |-> "high", category |-> "security",
       tool |-> "bandit", message |-> "Potential hardcoded secret detected"],
      [file |-> "a.py", line |-> 1, severity |-> "error", category |-> "style",
       tool |-> "flake8", message |-> "line too long", code |-> "E501"],
      [file |-> "b.py", line |-> 3, severity |-> "warning", category |-> "style",
       tool |-> "flake8", message |-> "blank line contains whitespace", code |-> "W293"] }

\* what analyzer.analyze can return: the deduplicated findings
WebAnalyses ==
    {DeduplicateIssues(raw) : raw \in UNION {[1..n -> WebIssues] : n \in 0..MaxWebLen}}

\* what AIHelper.generate_feedback does for one file: it returns the parsed
\* items, or [] when the call failed or the helper is disabled
WebAIBehaviours == {"returns_items", "returns_empty"}

\* bool(value) of a global that holds None or a value; empty is the falsy
\* value of its type ([] or {})
IsTruthy(global, empty) == global # None /\ global[1] # empty

InitWeb ==
    /\ pc = "input"
    /\ issues = <<>>
    /\ raised = "none"
    /\ score_result = NoResult
    /\ unique_issues = <<>>
    /\ use_ai = FALSE
    /\ ai_behaviour = <<>>
    /\ feedback_items = <<>>
    /\ feedback = <<>>
    /\ WebIdle
    /\ AnalyzeIdle

\* the HTTP 500 of the except branch of analyze_pr
AnalyzeFailed == [op |-> "analyze", status |-> 500]

\* GET /api/analyze.  The configuration or the fetch may fail; the analyzer
\* returns any deduplicated list; FeedbackGenerator() uses the collaborator
\* when OPENAI_API_KEY is set.  Each global is assigned as soon as its step
\* returns, and a raise in a later step leaves the earlier assignments.
AnalyzePR ==
    /\ \E fetch_ok \in BOOLEAN, pr \in WebPRs, analysis \in WebAnalyses, api_key \in BOOLEAN :
         \E b \in [FilesOf(analysis) -> WebAIBehaviours] :
            LET generated == GenerateOutcome(analysis, api_key, b)
            IN  IF ~fetch_ok
                THEN /\ response' = AnalyzeFailed
                     /\ UNCHANGED <<current_pr_data, current_analysis, current_feedback,
                                    current_score, last_success>>
                ELSE /\ current_pr_data' = Some(pr)
                     /\ current_analysis' = Some(analysis)
                     /\ IF generated[1] # "none"
                        THEN /\ response' = AnalyzeFailed
                             /\ UNCHANGED <<current_feedback, current_score, last_success>>
                        ELSE /\ current_feedback' = Some(generated[3])
                             /\ \E o \in ScoreOutcomes(analysis) :
                                   IF o[1] # "none"
                                   THEN /\ response' = AnalyzeFailed
                                        /\ UNCHANGED <<current_score, last_success>>
                                   ELSE LET body == [success   |-> TRUE,
                                                     pr_data   |-> pr,
                                                     analysis  |-> analysis,
                                                     feedback  |-> generated[3],
                                                     score     |-> o[2],
                                                     timestamp |-> "datetime.now().isoformat()"]
                                        IN  /\ current_score' = Some(o[2])
                                            /\ response' = [op |-> "analyze", status |-> 200, body |-> body]
                                            /\ last_success' = Some(body)
    /\ UNCHANGED <<analyzeVars, pc, issues, raised, score_result, dedupVars, feedbackVars>>

\* GET /api/export?format=...
ExportReport ==
    /\ \E format \in {"json", "xml"} :
          response' =
              IF \/ ~IsTruthy(current_pr_data, <<>>)
                 \/ ~IsTruthy(current_analysis, <<>>)
                 \/ ~IsTruthy(current_feedback, <<>>)
                 \/ ~IsTruthy(current_score, <<>>)
              THEN [op |-> "export", format |-> format, status |-> 404]
              ELSE IF format = "json"
              THEN [op |-> "export", format |-> format, status |-> 200,
                    body |-> [pr_data     |-> current_pr_data[1],
                              analysis    |-> current_analysis[1],
                              feedback    |-> current_feedback[1],
                              score       |-> current_score[1],
                              exported_at |-> "datetime.now().isoformat()",
                              version     |-> "1.0.0"]]
              ELSE [op |-> "export", format |-> format, status |-> 400]
    /\ UNCHANGED <<analyzeVars, pc, issues, raised, score_result, dedupVars, feedbackVars,
                   current_pr_data, current_analysis, current_feedback, current_score,
                   last_success>>

\* the modelled variables the read-only endpoints leave alone
servedVars == <<analyzeVars, pc, issues, raised, score_result, dedupVars, feedbackVars,
                current_pr_data, current_analysis, current_feedback, current_score, last_success>>

\* GET /api/status
GetStatus ==
    /\ response' =
          [op |-> "status", status |-> 200,
           body |-> [has_pr_data  |-> current_pr_data # None,
                     has_analysis |-> current_analysis # None,
                     has_feedback |-> current_feedback # None,
                     has_score    |-> current_score # None,
                     pr_id        |-> IF IsTruthy(current_pr_data, <<>>)
                                      THEN Some(current_pr_data[1].id) ELSE None,
                     total_issues |-> IF IsTruthy(current_analysis, <<>>)
                                      THEN Len(current_analysis[1]) ELSE 0,
                     score        |-> IF IsTruthy(current_score, <<>>)
                                      THEN Some(current_score[1].total_score) ELSE None]]
    /\ UNCHANGED servedVars

\* GET /api/feedback
GetFeedback ==
    /\ response' =
          IF ~IsTruthy(current_feedback, <<>>)
          THEN [op |-> "feedback", status |-> 404]
          ELSE [op |-> "feedback", status |-> 200,
                body |-> [feedback |-> current_feedback[1], total_items |-> Len(current_feedback[1])]]
    /\ UNCHANGED servedVars

\* GET /api/score
GetScore ==
    /\ response' =
          IF ~IsTruthy(current_score, <<>>)
          THEN [op |-> "score", status |-> 404]
          ELSE [op |-> "score", status |-> 200, body |-> current_score[1]]
    /\ UNCHANGED servedVars

\* GET /api/issues (the by_category grouping of the body is left out)
GetIssues ==
    /\ response' =
          IF ~IsTruthy(current_analysis, <<>>)
          THEN [op |-> "issues", status |-> 404]
          ELSE [op |-> "issues", status |-> 200,
                body |-> [issues |-> current_analysis[1], total_issues |-> Len(current_analysis[1])]]
    /\ UNCHANGED servedVars

NextWeb == AnalyzePR \/ ExportReport \/ GetStatus \/ GetFeedback \/ GetScore \/ GetIssues

SpecWeb == InitWeb /\ [][NextWeb]_vars

\* C19: after any analysis request that completed successfully, including one
\* that found no issues, the export operation returns a flat report with
\* exactly the keys pr_data, analysis, feedback, score, exported_at and
\* version, whose analysis, feedback and score are the deduplicated issues,
\* the prioritized feedback and the ScoreResult of the most recent successful
\* analysis.
C19_ExportAfterSuccess ==
    ( /\ last_success # None
      /\ response # None
      /\ response.op = "export"
      /\ response.format = "json" )
    => /\ response.status = 200
       /\ DOMAIN response.body =
             {"pr_data", "analysis", "feedback", "score", "exported_at", "version"}
       /\ response.body.analysis = last_success[1].analysis
       /\ response.body.feedback = last_success[1].feedback
       /\ response.body.score = last_success[1].score

\* C29: after any sequence of analyze requests, some of which fail part-way,
\* the stored pr_data, analysis, feedback and score that the endpoints serve
\* all come from the same pull request: a failed request never leaves the PR
\* data of one request combined with the analysis, feedback or score of an
\* earlier one.
C29_SamePullRequest ==
    /\ current_score # None => current_pr_data = Some(last_success[1].pr_data)
    /\ ( /\ response # None
         /\ response.op = "status"
         /\ response.body.score # None )
       => response.body.pr_id = Some(last_success[1].pr_data.id)

(***************************************************************************)
(* The three consumers of an issue list called on one and the same list,   *)
(* in any order and each once: Analyzer._deduplicate_issues,               *)
(* FeedbackGenerator.generate and PRScorer.score.  None of them assigns to *)
(* the list or to a record of it: they read with .get and build new lists  *)
(* and dicts.                                                              *)
(***************************************************************************)
\* the records of the shared list
PureIssues ==
    { [file |-> "a.py", line |-> 10, severity |-> "high", category |-> "security",
       tool |-> "bandit", message |-> "Potential hardcoded secret detected"],
      \* the same finding reported by the built-in checker
      [file |-> "a.py", line |-> 10, severity |-> "high", category |-> "security",
       tool |-> "custom", message |-> "Potential hardcoded secret detected"],
      [file |-> "a.py", line |-> 1, severity |-> "error", category |-> "style",
       tool |-> "flake8", message |-> "line too long", code |-> "E501"],
      [file |-> "b.py", line |-> 3, severity |-> "warning", category |-> "style",
       tool |-> "flake8", message |-> "blank line contains whitespace", code |-> "W293"],
      [file |-> "b.py", message |-> "Issue with missing fields"] }

InitPure ==
    /\ pc = "input"
    /\ issues = <<>>
    /\ raised = "none"
    /\ score_result = NoResult
    /\ unique_issues = <<>>
    /\ use_ai \in BOOLEAN
    /\ ai_behaviour = <<>>
    /\ feedback_items = <<>>
    /\ feedback = <<>>
    /\ WebIdle
    /\ AnalyzeIdle

\* the caller appends one more record before the first call
PureAddIssue ==
    /\ pc = "input"
    /\ Len(issues) < MaxPureLen
    /\ \E i \in PureIssues : issues' = Append(issues, i)
    /\ UNCHANGED <<analyzeVars, webVars, pc, raised, score_result, dedupVars, feedbackVars>>

\* PureDeduplicate deduplicating in place
PureDeduplicate_InPlace ==
    /\ pc \in {"input", "called"}
    /\ raised = "none"
    /\ unique_issues = <<>>
    /\ unique_issues' = DeduplicateIssues(issues)
    /\ issues' = DeduplicateIssues(issues)
    /\ pc' = "called"
    /\ UNCHANGED <<analyzeVars, webVars, raised, score_result, feedbackVars>>

\* unique = self._deduplicate_issues(issues)
PureDeduplicate ==
    /\ pc \in {"input", "called"}
    /\ raised = "none"
    /\ unique_issues = <<>>
    /\ unique_issues' = DeduplicateIssues(issues)
    /\ pc' = "called"
    /\ UNCHANGED <<analyzeVars, webVars, issues, raised, score_result, feedbackVars>>

\* what the service behind AIHelper does when called for one file: it
\* answers with the JSON asked for, the API call raises, the answer is text
\* without JSON, the answer has no content, or the client library could not
\* be imported when the helper was built
ServiceOutcomes == {"ok", "api_error", "unparsable", "no_content", "library_missing"}

\* the outcomes in which the service call failed
ServiceFailures == {"api_error", "unparsable", "no_content", "library_missing"}

\* AIHelper.generate_feedback: [] when the helper is disabled, [] from the
\* except branch when _call_openai or _parse_ai_response raises, the
\* text-based record when the response cannot be parsed as JSON
AIHelperBehaviour(service) ==
    IF service = "ok" THEN "returns_items"
    ELSE IF service = "unparsable" THEN "returns_text"
    ELSE "returns_empty"

\* feedback = feedback_generator.generate(issues), the collaborator being the
\* shipped AIHelper when use_ai is set; ai_behaviour records what the service
\* did for each file
PureGenerate ==
    /\ pc \in {"input", "called"}
    /\ raised = "none"
    /\ ai_behaviour = <<>>
    /\ \E service \in [FilesOf(issues) -> IF use_ai THEN ServiceOutcomes ELSE {"not_called"}] :
          LET b == [f \in FilesOf(issues) |-> AIHelperBehaviour(service[f])]
              outcome == GenerateOutcome(issues, use_ai, b)
          IN  /\ ai_behaviour' = service
              /\ raised' = outcome[1]
              /\ feedback_items' = outcome[2]
              /\ feedback' = outcome[3]
    /\ pc' = "called"
    /\ UNCHANGED <<analyzeVars, webVars, issues, score_result, dedupVars, use_ai>>

\* score_data = scorer.score(issues)
PureScore ==
    /\ pc \in {"input", "called"}
    /\ raised = "none"
    /\ score_result = NoResult
    /\ \E o \in ScoreOutcomes(issues) :
          /\ raised' = o[1]
          /\ score_result' = o[2]
    /\ pc' = "called"
    /\ UNCHANGED <<analyzeVars, webVars, issues, dedupVars, feedbackVars>>

\* the caller drops the list and starts with a new one
PureNewRequest ==
    /\ pc = "called"
    /\ pc' = "input"
    /\ issues' = <<>>
    /\ raised' = "none"
    /\ score_result' = NoResult
    /\ unique_issues' = <<>>
    /\ use_ai' \in BOOLEAN
    /\ ai_behaviour' = <<>>
    /\ feedback_items' = <<>>
    /\ feedback' = <<>>
    /\ UNCHANGED <<analyzeVars, webVars>>

NextPure == PureAddIssue \/ PureDeduplicate \/ PureGenerate \/ PureScore \/ PureNewRequest

SpecPure == InitPure /\ [][NextPure]_vars

\* the score of the list as the claim C21 fixes it: the result score() gives
\* on the list alone (a decimal tie has two admissible roundings)
C21_ScoreAlone == {o[2] : o \in {x \in ScoreOutcomes(issues) : x[1] = "none"}}

\* C21: deduplicate, score and generate leave their input unchanged (same
\* length, same order, same fields and values in every record), and the
\* score of a list is the same whether or not feedback was generated from it
\* first.
C21_InputUnchanged ==
    [][pc' = "called" =>
          /\ issues' = issues
          /\ score_result' # NoResult => score_result' \in C21_ScoreAlone]_vars

\* all three were called on a list with a duplicate, feedback included
C21_Witness ==
    /\ pc = "called"
    /\ raised = "none"
    /\ Len(unique_issues) >= 1
    /\ Len(unique_issues) < Len(issues)
    /\ feedback # <<>>
    /\ score_result # NoResult

\* the template items of the issues of file f
C22_TemplateItems(f) == GenerateTemplateFeedback(IssuesOfFile(issues, f))

\* generate was called with the collaborator enabled
C22_GeneratedWithHelper ==
    /\ pc = "called"
    /\ use_ai
    /\ issues # <<>>
    /\ DOMAIN ai_behaviour = FilesOf(issues)

\* C22: with external feedback enabled and AIHelper as collaborator, whenever
\* the service call fails for a file, the feedback returned by generate still
\* contains a template-generated item for each issue of that file.
C22_ServiceFailureFallsBack ==
    C22_GeneratedWithHelper =>
        \A f \in FilesOf(issues) :
            ai_behaviour[f] \in ServiceFailures =>
                \A k \in 1..Len(C22_TemplateItems(f)) :
                    \E j \in 1..Len(feedback) : feedback[j] = C22_TemplateItems(f)[k]

(***************************************************************************)
(* Analyzer.analyze: every tool of analysis_tools is run on every diff, a  *)
(* raising tool leaves an analysis_error record, and the collected list is *)
(* deduplicated.  The four subprocess runners catch every Exception inside *)
(* and then return what they have; _custom_analysis calls changes.split    *)
(* outside any try, so it raises when "changes" is not a string, which is  *)
(* what GitHubIntegration.fetch_pr supplies (file.changes, a count).       *)
(***************************************************************************)
\* self.analysis_tools, in insertion order
analysis_tools == <<"flake8", "radon", "bandit", "safety", "custom">>

\* the file names of a pull request (distinct, as the platforms list them)
DiffFiles == <<"a.py", "b.py", "c.py", "d.py">>

\* diff["changes"]: the patch text (GitLab, Bitbucket) or the number of
\* changed lines (GitHub)
ChangesKinds == {"text", "int"}

\* _get_severity_from_code(code)
GetSeverityFromCode(code) ==
    IF Head(code) = "E" THEN "error"
    ELSE IF Head(code) = "W" THEN "warning"
    ELSE IF Head(code) = "F" THEN "error"
    ELSE "info"

\* one record of _run_flake8; a rule code is <<first letter, digits>>
Flake8Issue(file, line, code, message) ==
    [file |-> file, line |-> line, column |-> 1, code |-> code[1] \o code[2], message |-> message,
     severity |-> GetSeverityFromCode(code), category |-> "style", tool |-> "flake8"]

\* what flake8 reports for a file: nothing (also after a timeout or an
\* error inside the runner), or a report with one code of each kind
Flake8Outputs(file) ==
    { <<>>,
      <<Flake8Issue(file, 1, <<"E", "501">>, "line too long"),
        Flake8Issue(file, 2, <<"F", "841">>, "local variable is assigned to but never used"),
        Flake8Issue(file, 3, <<"W", "293">>, "blank line contains whitespace"),
        Flake8Issue(file, 7, <<"C", "901">>, "function is too complex")>> }

\* one record of _run_radon
RadonIssue(file, line, complexity) ==
    [file |-> file, line |-> line, function |-> "parse", complexity |-> complexity, grade |-> "C",
     severity |-> IF complexity > 15 THEN "high" ELSE "medium", category |-> "complexity",
     message |-> "High complexity - consider refactoring", tool |-> "radon"]

RadonOutputs(file) == { <<>>, <<RadonIssue(file, 5, 12), RadonIssue(file, 30, 16)>> }

\* issue['issue_severity'].lower() for the severities bandit reports
Lower(issue_severity) ==
    IF issue_severity = "HIGH" THEN "high"
    ELSE IF issue_severity = "MEDIUM" THEN "medium"
    ELSE "low"

\* one record of _run_bandit
BanditIssue(file, line, issue_severity, issue_text) ==
    [file |-> file, line |-> line, severity |-> Lower(issue_severity), category |-> "security",
     message |-> issue_text, confidence |-> "HIGH", tool |-> "bandit", test_id |-> "B105"]

BanditOutputs(file) ==
    { <<>>,
      <<BanditIssue(file, 10, "HIGH", "Possible hardcoded password"),
        BanditIssue(file, 11, "LOW", "Use of assert detected")>> }

\* the record of _run_safety: the manifest as file, no line
SafetyIssue ==
    [file |-> "requirements.txt", severity |-> "high", category |-> "security",
     message |-> "Vulnerable dependency: requests 2.0", vulnerability |-> "CVE", tool |-> "safety"]

\* safety checks the environment, whatever file is being analyzed
SafetyOutputs == { <<>>, <<SafetyIssue>> }

\* the records of _custom_analysis on a patch text
CustomOutputs(file) ==
    { <<>>,
      <<[file |-> file, line |-> 4, severity |-> "low", category |-> "maintenance",
         message |-> "Found TODO: later", tool |-> "custom"],
        [file |-> file, line |-> 10, severity |-> "high", category |-> "security",
         message |-> "Potential hardcoded secret detected", tool |-> "custom"],
        [file |-> file, line |-> 20, severity |-> "medium", category |-> "maintainability",
         message |-> "Large function - consider breaking down", tool |-> "custom"]>> }

\* what the tools report for one diff
ToolRuns(diff) ==
    [flake8 : Flake8Outputs(diff.file), radon : RadonOutputs(diff.file), bandit : BanditOutputs(diff.file),
     safety : SafetyOutputs,
     custom : IF diff.changes = "text" THEN CustomOutputs(diff.file) ELSE {<<>>}]

\* tool_func(file_path, changes) raises: changes.split on a number
ToolRaises(diff, tool) == tool = "custom" /\ diff.changes # "text"

\* the record of the except branch of analyze
AnalysisError(diff, tool) ==
    [file |-> diff.file, tool |-> tool, severity |-> "error", category |-> "analysis_error",
     message |-> "Analysis failed: 'int' object has no attribute 'split'", line |-> 0]

\* RunTool with an except branch that only logs
RunTool_LogOnly(diff, run, tool) ==
    IF ToolRaises(diff, tool) THEN <<>> ELSE run[tool]

\* the body of the loop over analysis_tools: what one tool adds to all_issues
RunTool(diff, run, tool) ==
    IF ToolRaises(diff, tool) THEN <<AnalysisError(diff, tool)>> ELSE run[tool]

\* what one diff adds to all_issues
AnalyzeDiff(diff, run) ==
    RunTool(diff, run, analysis_tools[1]) \o RunTool(diff, run, analysis_tools[2])
    \o RunTool(diff, run, analysis_tools[3]) \o RunTool(diff, run, analysis_tools[4])
    \o RunTool(diff, run, analysis_tools[5])

RECURSIVE AllIssues(_, _)
\* all_issues after the loop over diffs
AllIssues(ds, runs) ==
    IF ds = <<>> THEN <<>>
    ELSE AllIssues(SubSeq(ds, 1, Len(ds) - 1), SubSeq(runs, 1, Len(ds) - 1))
         \o AnalyzeDiff(ds[Len(ds)], runs[Len(ds)])

InitAnalyze ==
    /\ pc = "input"
    /\ issues = <<>>
    /\ raised = "none"
    /\ score_result = NoResult
    /\ unique_issues = <<>>
    /\ use_ai = FALSE
    /\ ai_behaviour = <<>>
    /\ feedback_items = <<>>
    /\ feedback = <<>>
    /\ WebIdle
    /\ AnalyzeIdle

\* the fetcher lists one more changed file
AnalyzeAddDiff ==
    /\ pc = "input"
    /\ Len(diffs) < MaxDiffs
    /\ Len(diffs) < Len(DiffFiles)
    /\ \E changes \in ChangesKinds :
          diffs' = Append(diffs, [file |-> DiffFiles[Len(diffs) + 1], changes |-> changes])
    /\ UNCHANGED <<webVars, pc, issues, raised, score_result, dedupVars, feedbackVars, tool_runs>>

\* issues = analyzer.analyze(diffs); issues holds all_issues, unique_issues
\* the returned list
Analyze ==
    /\ pc = "input"
    /\ \E runs \in [1..Len(diffs) -> UNION {ToolRuns(diffs[k]) : k \in 1..Len(diffs)}] :
          /\ \A k \in 1..Len(diffs) : runs[k] \in ToolRuns(diffs[k])
          /\ tool_runs' = runs
          /\ issues' = AllIssues(diffs, runs)
          /\ unique_issues' = DeduplicateIssues(AllIssues(diffs, runs))
    /\ pc' = "done"
    /\ UNCHANGED <<webVars, diffs, raised, score_result, feedbackVars>>

\* the caller starts with the next pull request
AnalyzeNewRequest ==
    /\ pc = "done"
    /\ pc' = "input"
    /\ issues' = <<>>
    /\ unique_issues' = <<>>
    /\ diffs' = <<>>
    /\ tool_runs' = <<>>
    /\ UNCHANGED <<webVars, raised, score_result, feedbackVars>>

NextAnalyze == AnalyzeAddDiff \/ Analyze \/ AnalyzeNewRequest

SpecAnalyze == InitAnalyze /\ [][NextAnalyze]_vars

\* the severities of the issue data model
C23_Severities == {"error", "high", "medium", "low", "info"}

\* C23: every issue returned by Analyzer.analyze has a severity in
\* {error, high, medium, low, info}, whichever tool produced it.
C23_SeverityInModel ==
    pc = "done" =>
        \A k \in 1..Len(unique_issues) :
            /\ "severity" \in DOMAIN unique_issues[k]
            /\ unique_issues[k].severity \in C23_Severities

\* the names of the tools analyze runs
C24_Tools == {analysis_tools[t] : t \in 1..Len(analysis_tools)}

\* the positions of the returned list that hold an analysis_error record of
\* the given file and tool
C24_ErrorRecords(file, tool) ==
    {j \in 1..Len(unique_issues) :
        /\ Get(unique_issues[j], "category", "unknown") = "analysis_error"
        /\ Get(unique_issues[j], "file", "") = file
        /\ Get(unique_issues[j], "tool", "unknown") = tool}

\* C24: when a tool raises while analyzing a file, analyze does not abort:
\* the issues of the other tools and other files are kept, and for each
\* (file, tool) pair whose tool raised the returned list contains exactly one
\* issue of category analysis_error, severity error and line 0 attributed to
\* that file and tool.
C24_ToolFailureContained ==
    pc = "done" =>
        \A k \in 1..Len(diffs) : \A tool \in C24_Tools :
            IF ToolRaises(diffs[k], tool)
            THEN /\ Cardinality(C24_ErrorRecords(diffs[k].file, tool)) = 1
                 /\ \A j \in C24_ErrorRecords(diffs[k].file, tool) :
                       /\ unique_issues[j].severity = "error"
                       /\ unique_issues[j].line = 0
            ELSE /\ C24_ErrorRecords(diffs[k].file, tool) = {}
                 /\ \A i \in 1..Len(tool_runs[k][tool]) :
                       \E j \in 1..Len(unique_issues) : unique_issues[j] = tool_runs[k][tool][i]

\* a tool raised on the first file while other tools reported findings for
\* it, and every tool returned on the second file
C24_Witness ==
    /\ pc = "done"
    /\ Len(diffs) = 2
    /\ ToolRaises(diffs[1], "custom")
    /\ tool_runs[1].flake8 # <<>>
    /\ tool_runs[1].bandit # <<>>
    /\ ~ToolRaises(diffs[2], "custom")
    /\ tool_runs[2].custom # <<>>
    /\ tool_runs[2].safety # <<>>

====
